---- MODULE Spec2Model ----
(***************************************************************************)
(* Model of the agenda item store of Kiroween (src/src/kiroween/agenda):   *)
(* the repository with its diff-based history, the service layer, the     *)
(* task-management and workflow operations, message ingestion and the     *)
(* notification policy engine.                                             *)
(*                                                                         *)
(* Time is counted in minutes since 1970-01-01 00:00 UTC (a Thursday).     *)
(* Python values are tagged records [k, s, n]: k is the Python type, s     *)
(* the string payload and n the integer payload, so that values of        *)
(* different Python types can be compared as Python compares them.         *)
(***************************************************************************)
EXTENDS Integers, Sequences, FiniteSets, TLC

VARIABLES
    items,      \* table agenda_items: id -> row
    history,    \* table agenda_item_history: sequence of rows in insertion order
    nextHid,    \* autoincrement counter of agenda_item_history.id
    nextId,     \* number of item rows created so far (uuid4 never repeats)
    now,        \* datetime.utcnow(), minutes since the epoch
    profiles,   \* table user_profiles: user_id -> notification_preferences
    sess,       \* the sessions of concurrently running upserts
    lastOp,     \* the last call: operation, arguments, what it returned or raised
    calls,      \* number of calls made so far
    views,      \* table views: id -> row
    returned    \* the list the last query returned, as item ids

vars == <<items, history, nextHid, nextId, now, profiles, sess, lastOp, calls, views, returned>>

(***************************************************************************)
(* Bounds of the model.                                                    *)
(***************************************************************************)
\* calls of the handlers in one behaviour
MaxCalls == 3
\* times the clock advances in one behaviour
MaxTicks == 1

(***************************************************************************)
(* Python values.                                                          *)
(***************************************************************************)
None == [k |-> "NoneType", s |-> "", n |-> 0]
PyS(x) == [k |-> "str", s |-> x, n |-> 0]
PyI(x) == [k |-> "int", s |-> "", n |-> x]
PyDt(t) == [k |-> "datetime", s |-> "", n |-> t]
PyType(x) == [k |-> "ItemType", s |-> x, n |-> 0]
PyStatus(x) == [k |-> "ItemStatus", s |-> x, n |-> 0]
\* a list of strings, and a dict as a sequence of <<key, value>> pairs
PyList(xs) == [k |-> "list", s |-> "", n |-> 0, l |-> xs]
PyDict(d) == [k |-> "dict", s |-> "", n |-> 0, d |-> d]

\* ItemType and ItemStatus are (str, Enum): a member is a str and compares
\* equal to the plain string of its value.
StrKinds == {"str", "ItemType", "ItemStatus"}

PyEq(a, b) ==
    IF a.k \in StrKinds /\ b.k \in StrKinds THEN a.s = b.s ELSE a = b

\* bool(x) of a value: None, "", 0, [] and {} are falsy
Truthy(a) ==
    CASE a.k = "NoneType" -> FALSE
      [] a.k \in StrKinds -> a.s # ""
      [] a.k = "int" -> a.n # 0
      [] a.k = "list" -> a.l # <<>>
      [] a.k = "dict" -> a.d # <<>>
      [] OTHER -> TRUE

ItemTypeValues ==
    {"task", "decision", "obligation", "question", "action_item", "note",
     "announcement"}

ItemStatusValues ==
    {"open", "in_progress", "completed", "deferred", "cancelled", "stale", "done"}

\* the member name of an enumeration value (TASK = "task", ...)
EnumName(v) ==
    CASE v = "task" -> "TASK"
      [] v = "decision" -> "DECISION"
      [] v = "obligation" -> "OBLIGATION"
      [] v = "question" -> "QUESTION"
      [] v = "action_item" -> "ACTION_ITEM"
      [] v = "note" -> "NOTE"
      [] v = "announcement" -> "ANNOUNCEMENT"
      [] v = "open" -> "OPEN"
      [] v = "in_progress" -> "IN_PROGRESS"
      [] v = "completed" -> "COMPLETED"
      [] v = "deferred" -> "DEFERRED"
      [] v = "cancelled" -> "CANCELLED"
      [] v = "stale" -> "STALE"
      [] v = "done" -> "DONE"
      [] OTHER -> v

Pad2(n) == IF n < 10 THEN "0" \o ToString(n) ELSE ToString(n)

\* str(datetime): the day is printed as a day number, the time of day as
\* HH:MM:SS
DtStr(t) ==
    "day" \o ToString(t \div 1440) \o " " \o Pad2((t % 1440) \div 60) \o ":"
        \o Pad2(t % 60) \o ":00"

\* str(x) as repository.upsert_item applies it to the old and the new value
PyStr(a) ==
    CASE a.k = "NoneType" -> "None"
      [] a.k = "str" -> a.s
      [] a.k = "int" -> ToString(a.n)
      [] a.k = "datetime" -> DtStr(a.n)
      [] a.k = "ItemType" -> "ItemType." \o EnumName(a.s)
      [] a.k = "ItemStatus" -> "ItemStatus." \o EnumName(a.s)

\* ItemType(x) / ItemStatus(x): the member with that value; ValueError for
\* any other value (IsEnumValue is the test, ToEnum the member)
IsEnumValue(cls, a) ==
    /\ a.k \in StrKinds
    /\ a.s \in (IF cls = "ItemType" THEN ItemTypeValues ELSE ItemStatusValues)

ToEnum(cls, a) == [k |-> cls, s |-> a.s, n |-> 0]

(***************************************************************************)
(* The tables (models.py).                                                 *)
(***************************************************************************)
ItemColumns ==
    {"type", "status", "title", "description", "raw_snippet", "workspace_id",
     "source_channel_id", "source_channel_name", "source_thread_ts",
     "source_message_ts", "source_url", "assigned_to_user_id",
     "assigned_to_user_name", "requestor_user_id", "requestor_user_name",
     "created_by_user_id", "project", "topic", "labels", "due_date", "due_at",
     "priority", "tags", "created_at", "updated_at", "completed_at"}

\* the columns declared nullable=False, and priority, whose annotation
\* Mapped[int] admits no None
NotNullColumns == {"type", "status", "title", "priority", "created_at", "updated_at"}

\* the columns of type SQLEnum, with their enumeration
EnumColumns == {"type", "status"}
EnumClass(c) == IF c = "type" THEN "ItemType" ELSE "ItemStatus"

\* A dict (item_data) is a sequence of <<key, value>> pairs with distinct
\* keys, in insertion order.
Has(d, key) == \E i \in 1..Len(d) : d[i][1] = key
Get(d, key) == d[CHOOSE i \in 1..Len(d) : d[i][1] = key][2]
GetOr(d, key, default) == IF Has(d, key) THEN Get(d, key) ELSE default
Keys(d) == {d[i][1] : i \in 1..Len(d)}

\* the database as one value: the two tables and their counters
DB == [items |-> items, history |-> history, nextHid |-> nextHid, nextId |-> nextId]

\* generate_uuid: a string no earlier row carries
generate_uuid(db) == "u" \o ToString(db.nextId + 1)

\* A variant of AgendaItem whose status is always the column default.
AgendaItemOpen(item_data, t) ==
    [c \in ItemColumns |->
        IF c = "status" THEN PyStatus("open")
        ELSE IF Has(item_data, c) THEN Get(item_data, c)
        ELSE CASE c = "priority" -> PyI(0)
               [] c \in {"created_at", "updated_at"} -> PyDt(t)
               [] OTHER -> None]

\* AgendaItem(item_data unpacked as keywords) as the INSERT stores it: the column defaults
\* (status OPEN, priority 0, created_at and updated_at now()) fill the
\* columns the caller left out, every other column left out is NULL.
AgendaItem(item_data, t) ==
    [c \in ItemColumns |->
        IF Has(item_data, c) THEN Get(item_data, c)
        ELSE CASE c = "status" -> PyStatus("open")
               [] c = "priority" -> PyI(0)
               [] c \in {"created_at", "updated_at"} -> PyDt(t)
               [] OTHER -> None]

\* What a row holds once written and read back: a string that is a value
\* of the column's enumeration is the member. A string that is no value
\* of the enumeration is stored as it is by a backend that keeps the
\* enumeration in a VARCHAR column (SQLEnum does not validate strings).
DbCoerce(row) ==
    [c \in ItemColumns |->
        IF c \in EnumColumns /\ IsEnumValue(EnumClass(c), row[c])
        THEN ToEnum(EnumClass(c), row[c])
        ELSE row[c]]

\* the NOT NULL constraints of agenda_items
RowValid(row) == \A c \in NotNullColumns : row[c].k # "NoneType"

\* whether the ORM can load the row: an enumeration column holding a
\* string outside the enumeration raises LookupError when it is read
Loadable(row) == \A c \in EnumColumns : IsEnumValue(EnumClass(c), row[c])

\* one row of agenda_item_history; changed_at is the server default now(),
\* changed_by is a nullable column
AgendaItemHistory(hid, item_id, field, old_val, new_val, t) ==
    [id |-> hid, item_id |-> item_id, field_changed |-> field,
     old_value |-> old_val, new_value |-> new_val, changed_at |-> t,
     changed_by |-> None]

(***************************************************************************)
(* Writes made on a loaded row outside upsert_item.                        *)
(***************************************************************************)
\* The UPDATE of a commit after attribute assignments: nothing is written
\* when no column has a new value; otherwise updated_at takes its onupdate
\* value now() unless the handler assigned it.
Commit(old, new, t) ==
    IF new = old THEN old
    ELSE IF new.updated_at # old.updated_at THEN new
    ELSE [new EXCEPT !.updated_at = PyDt(t)]

SetRow(db, item_id, row) == [db EXCEPT !.items[item_id] = row]

(***************************************************************************)
(* AgendaRepository (repository.py).                                       *)
(***************************************************************************)
\* get_by_id: the row, or None
HasRow(db, item_id) == item_id \in DOMAIN db.items

\* A variant of Changes that leaves out the comparison of the old value
\* with the new one: every supplied attribute counts as changed.
ChangesOfAllKeys(existing, item_data) ==
    LET changed(e) ==
            /\ e[1] # "id"
            /\ e[1] \in ItemColumns
    IN SelectSeq(item_data, changed)

\* The entries of item_data that the update branch records: key is not
\* "id", the row has the attribute, and the old value differs from the
\* new one.  The result keeps the order of item_data.
Changes(existing, item_data) ==
    LET changed(e) ==
            /\ e[1] # "id"
            /\ e[1] \in ItemColumns
            /\ ~PyEq(existing[e[1]], e[2])
    IN SelectSeq(item_data, changed)

\* the history rows of the update branch, one per change
HistoryRows(db, item_id, changes, existing, t) ==
    [i \in 1..Len(changes) |->
        AgendaItemHistory(db.nextHid + i - 1, item_id, changes[i][1],
                          PyStr(existing[changes[i][1]]), PyStr(changes[i][2]), t)]

\* The UPDATE the flush emits: the columns set by setattr are written on
\* the row as the table holds it, updated_at takes its onupdate value
\* now() when the statement is emitted and does not set it itself.
FlushUpdate(dbrow, changes, t) ==
    LET cols == {changes[i][1] : i \in 1..Len(changes)}
        val(c) == changes[CHOOSE i \in 1..Len(changes) : changes[i][1] = c][2]
    IN [c \in ItemColumns |->
            IF c \in cols THEN val(c)
            ELSE IF c = "updated_at" /\ cols # {} THEN PyDt(t)
            ELSE dbrow[c]]

\* what a repository call returns: the database after it and the outcome
Outcome(db, result, item_id) == [db |-> db, result |-> result, id |-> item_id]

\* A variant of UpdateExisting whose failing commit keeps the history rows
\* that were added before the failure.
UpdateExistingPartial(db, item_id, existing, item_data, dbOk, t) ==
    LET changes == Changes(existing, item_data)
        newrow == DbCoerce(FlushUpdate(db.items[item_id], changes, t))
        rows == HistoryRows(db, item_id, changes, existing, t)
        after == [db EXCEPT !.items = [db.items EXCEPT ![item_id] = newrow],
                            !.history = db.history \o rows,
                            !.nextHid = db.nextHid + Len(rows)]
        partial == [db EXCEPT !.history = db.history \o rows,
                              !.nextHid = db.nextHid + Len(rows)]
    IN IF ~dbOk \/ ~RowValid(newrow)
       THEN Outcome(partial, "AgendaDBError", item_id)
       ELSE IF ~Loadable(newrow)
       THEN Outcome(after, "AgendaDBError", item_id)
       ELSE Outcome(after, "updated", item_id)

\* A variant of UpdateExisting whose UPDATE writes every column of the row
\* as the session holds it, not only the columns that were assigned.
UpdateExistingWholeRow(db, item_id, existing, item_data, dbOk, t) ==
    LET changes == Changes(existing, item_data)
        newrow == DbCoerce(FlushUpdate(existing, changes, t))
        rows == HistoryRows(db, item_id, changes, existing, t)
        after == [db EXCEPT !.items = [db.items EXCEPT ![item_id] = newrow],
                            !.history = db.history \o rows,
                            !.nextHid = db.nextHid + Len(rows)]
    IN IF ~dbOk \/ ~RowValid(newrow)
       THEN Outcome(db, "AgendaDBError", item_id)
       ELSE IF ~Loadable(newrow)
       THEN Outcome(after, "AgendaDBError", item_id)
       ELSE Outcome(after, "updated", item_id)

\* The update branch of upsert_item on the row `existing` that get_by_id
\* loaded, flushed against the table as it is at commit.  dbOk: whether
\* the backend accepts the writes of the commit.
UpdateExisting(db, item_id, existing, item_data, dbOk, t) ==
    LET changes == Changes(existing, item_data)
        newrow == DbCoerce(FlushUpdate(db.items[item_id], changes, t))
        rows == HistoryRows(db, item_id, changes, existing, t)
        after == [db EXCEPT !.items = [db.items EXCEPT ![item_id] = newrow],
                            !.history = db.history \o rows,
                            !.nextHid = db.nextHid + Len(rows)]
    IN IF ~dbOk \/ ~RowValid(newrow)
       THEN Outcome(db, "AgendaDBError", item_id)
       ELSE IF ~Loadable(newrow)
       THEN Outcome(after, "AgendaDBError", item_id)
       ELSE Outcome(after, "updated", item_id)

\* The create branch of upsert_item: type and status strings are
\* converted to their enumerations (ValueError for an unknown string),
\* then the row is inserted.
InsertNew(db, item_data, dbOk, t) ==
    LET conv(e) ==
            IF e[1] \in EnumColumns /\ e[2].k \in StrKinds
            THEN <<e[1], ToEnum(EnumClass(e[1]), e[2])>>
            ELSE e
        bad(e) ==
            /\ e[1] \in EnumColumns
            /\ e[2].k \in StrKinds
            /\ ~IsEnumValue(EnumClass(e[1]), e[2])
        data == [i \in 1..Len(item_data) |-> conv(item_data[i])]
        given == GetOr(item_data, "id", None)
        item_id == IF Truthy(given) THEN given.s ELSE generate_uuid(db)
        row == AgendaItem(data, t)
        after == [db EXCEPT !.items = [x \in DOMAIN db.items \cup {item_id} |->
                                          IF x = item_id THEN row ELSE db.items[x]],
                            !.nextId = db.nextId + 1]
    IN IF \/ \E i \in 1..Len(item_data) : bad(item_data[i])
          \/ ~(Keys(item_data) \subseteq ItemColumns \cup {"id"})
          \/ ~dbOk
          \/ ~RowValid(row)
          \/ item_id \in DOMAIN db.items
       THEN Outcome(db, "AgendaDBError", "")
       ELSE Outcome(after, "created", item_id)

\* upsert_item(item_data): update the row with the id of item_data when
\* there is one, otherwise insert; any exception is rolled back and
\* raised as AgendaDBError.
upsert_item(db, item_data, dbOk, t) ==
    LET item_id == GetOr(item_data, "id", None)
    IN IF Truthy(item_id) /\ HasRow(db, item_id.s)
       THEN IF ~Loadable(db.items[item_id.s])
            THEN Outcome(db, "AgendaDBError", item_id.s)
            ELSE UpdateExisting(db, item_id.s, db.items[item_id.s], item_data, dbOk, t)
       ELSE InsertNew(db, item_data, dbOk, t)

\* A variant of mark_completed that records the change of status in the
\* history table.
mark_completed_recorded(db, item_id, t) ==
    IF ~HasRow(db, item_id) THEN Outcome(db, "None", item_id)
    ELSE IF ~Loadable(db.items[item_id]) THEN Outcome(db, "LookupError", item_id)
    ELSE LET row == Commit(db.items[item_id],
                           [db.items[item_id] EXCEPT !.status = PyStatus("completed"),
                                                     !.completed_at = PyDt(t)],
                           t)
             h == AgendaItemHistory(db.nextHid, item_id, "status",
                                    PyStr(db.items[item_id].status),
                                    PyStr(PyStatus("completed")), t)
         IN Outcome([SetRow(db, item_id, row) EXCEPT !.history = db.history \o <<h>>,
                                                     !.nextHid = db.nextHid + 1],
                    "ok", item_id)

\* mark_completed(item_id)
mark_completed(db, item_id, t) ==
    IF ~HasRow(db, item_id) THEN Outcome(db, "None", item_id)
    ELSE IF ~Loadable(db.items[item_id]) THEN Outcome(db, "LookupError", item_id)
    ELSE Outcome(SetRow(db, item_id,
                     Commit(db.items[item_id],
                            [db.items[item_id] EXCEPT !.status = PyStatus("completed"),
                                                      !.completed_at = PyDt(t)],
                            t)),
                 "ok", item_id)

\* A variant of delete that removes the item row only.
delete_item_row_only(db, item_id) ==
    IF ~HasRow(db, item_id) THEN Outcome(db, "False", item_id)
    ELSE IF ~Loadable(db.items[item_id]) THEN Outcome(db, "LookupError", item_id)
    ELSE Outcome([db EXCEPT !.items = [x \in DOMAIN db.items \ {item_id} |-> db.items[x]]],
                 "True", item_id)

\* delete(item_id): the relationship cascade ("all, delete-orphan") and
\* the foreign key (ondelete CASCADE) remove the history rows of the item
delete(db, item_id) ==
    IF ~HasRow(db, item_id) THEN Outcome(db, "False", item_id)
    ELSE IF ~Loadable(db.items[item_id]) THEN Outcome(db, "LookupError", item_id)
    ELSE LET keep(h) == h.item_id # item_id
         IN Outcome([db EXCEPT !.items = [x \in DOMAIN db.items \ {item_id} |-> db.items[x]],
                               !.history = SelectSeq(db.history, keep)],
                    "True", item_id)

(***************************************************************************)
(* AgendaService (service.py).                                             *)
(***************************************************************************)
\* ",".join(tags) if tags else None
JoinTags(tags) ==
    LET RECURSIVE join(_)
        join(i) == IF i = Len(tags) THEN tags[i] ELSE tags[i] \o "," \o join(i + 1)
    IN IF Len(tags) = 0 THEN None ELSE PyS(join(1))

\* A variant of ServiceItemData that leaves out the parameters that are
\* None, so that an update keeps the fields the caller did not mention.
ServiceItemDataGiven(a) ==
    LET base == << <<"type", ToEnum("ItemType", a.item_type)>>,
                   <<"title", a.title>>,
                   <<"description", a.description>>,
                   <<"status", ToEnum("ItemStatus", a.status)>>,
                   <<"assigned_to_user_id", a.assigned_to_user_id>>,
                   <<"assigned_to_user_name", a.assigned_to_user_name>>,
                   <<"source_channel_id", a.source_channel_id>>,
                   <<"source_channel_name", a.source_channel_name>>,
                   <<"source_thread_ts", a.source_thread_ts>>,
                   <<"source_url", a.source_url>>,
                   <<"priority", a.priority>>,
                   <<"tags", JoinTags(a.tags)>> >>
        given == SelectSeq(base, LAMBDA e : e[2] # None)
    IN IF Truthy(a.item_id) THEN Append(given, <<"id", a.item_id>>) ELSE given

\* the item_data dict that AgendaService.upsert_item builds from its
\* parameters a; "id" is added last and only for a truthy item_id
ServiceItemData(a) ==
    LET base == << <<"type", ToEnum("ItemType", a.item_type)>>,
                   <<"title", a.title>>,
                   <<"description", a.description>>,
                   <<"status", ToEnum("ItemStatus", a.status)>>,
                   <<"assigned_to_user_id", a.assigned_to_user_id>>,
                   <<"assigned_to_user_name", a.assigned_to_user_name>>,
                   <<"source_channel_id", a.source_channel_id>>,
                   <<"source_channel_name", a.source_channel_name>>,
                   <<"source_thread_ts", a.source_thread_ts>>,
                   <<"source_url", a.source_url>>,
                   <<"priority", a.priority>>,
                   <<"tags", JoinTags(a.tags)>> >>
    IN IF Truthy(a.item_id) THEN Append(base, <<"id", a.item_id>>) ELSE base

\* AgendaService.upsert_item: ItemType(item_type) and ItemStatus(status)
\* raise ValueError before the repository is called
service_upsert_item(db, a, dbOk, t) ==
    IF ~IsEnumValue("ItemType", a.item_type) \/ ~IsEnumValue("ItemStatus", a.status)
    THEN Outcome(db, "ValueError", "")
    ELSE upsert_item(db, ServiceItemData(a), dbOk, t)

\* the parameters of AgendaService.upsert_item with their defaults
ServiceArgs(item_type, title) ==
    [item_type |-> item_type, title |-> title, description |-> None,
     status |-> PyS("open"), item_id |-> None, assigned_to_user_id |-> None,
     assigned_to_user_name |-> None, source_channel_id |-> None,
     source_channel_name |-> None, source_thread_ts |-> None,
     source_url |-> None, priority |-> PyI(0), tags |-> <<>>]

(***************************************************************************)
(* TaskManagementService (task_management.py).                             *)
(***************************************************************************)
\* A variant of update_task_status that clears completed_at whenever the
\* new status is not completed.
update_task_status_clearing(db, task_id, status, t) ==
    IF ~HasRow(db, task_id) THEN Outcome(db, "None", task_id)
    ELSE IF ~Loadable(db.items[task_id]) THEN Outcome(db, "LookupError", task_id)
    ELSE IF ~IsEnumValue("ItemStatus", status) THEN Outcome(db, "ValueError", task_id)
    ELSE LET item == db.items[task_id]
             new == [item EXCEPT
                        !.status = ToEnum("ItemStatus", status),
                        !.completed_at = IF status.s = "completed" THEN PyDt(t) ELSE None]
         IN Outcome(SetRow(db, task_id, Commit(item, new, t)), "ok", task_id)

\* update_task_status(task_id, status)
update_task_status(db, task_id, status, t) ==
    IF ~HasRow(db, task_id) THEN Outcome(db, "None", task_id)
    ELSE IF ~Loadable(db.items[task_id]) THEN Outcome(db, "LookupError", task_id)
    ELSE IF ~IsEnumValue("ItemStatus", status) THEN Outcome(db, "ValueError", task_id)
    ELSE LET item == db.items[task_id]
             new == [item EXCEPT
                        !.status = ToEnum("ItemStatus", status),
                        !.completed_at =
                            IF status.s = "completed" THEN PyDt(t)
                            ELSE IF status.s = "in_progress" /\ ~Truthy(item.completed_at)
                            THEN None
                            ELSE @]
         IN Outcome(SetRow(db, task_id, Commit(item, new, t)), "ok", task_id)

IsOpenTask(row) ==
    /\ row.type = PyType("task")
    /\ row.status \in {PyStatus("open"), PyStatus("in_progress")}

\* close_tasks_in_thread(thread_ts, channel_id): returns the count
close_tasks_in_thread(db, thread_ts, channel_id, t) ==
    LET sel == {x \in DOMAIN db.items :
                    /\ PyEq(db.items[x].source_thread_ts, thread_ts)
                    /\ IsOpenTask(db.items[x])
                    /\ (Truthy(channel_id) =>
                            PyEq(db.items[x].source_channel_id, channel_id))}
        closed(row) == [row EXCEPT !.status = PyStatus("completed"),
                                   !.completed_at = PyDt(t)]
    IN [db |-> [db EXCEPT !.items =
                    [x \in DOMAIN db.items |->
                        IF x \in sel THEN Commit(db.items[x], closed(db.items[x]), t)
                        ELSE db.items[x]]],
        result |-> "count", id |-> "", count |-> Cardinality(sel)]

MinutesPerDay == 1440

\* A variant of mark_stale_tasks that selects the tasks of every status.
mark_stale_tasks_any_status(db, days_inactive, workspace_id, t) ==
    LET cutoff == t - days_inactive * MinutesPerDay
        sel == {x \in DOMAIN db.items :
                    /\ db.items[x].type = PyType("task")
                    /\ db.items[x].updated_at.n < cutoff}
        stale(row) == [row EXCEPT !.status = PyStatus("stale")]
    IN [db |-> [db EXCEPT !.items =
                    [x \in DOMAIN db.items |->
                        IF x \in sel
                        THEN IF stale(db.items[x]) = db.items[x] THEN db.items[x]
                             ELSE [stale(db.items[x]) EXCEPT !.updated_at = PyDt(t)]
                        ELSE db.items[x]]],
        result |-> "count", id |-> "", count |-> Cardinality(sel)]

\* mark_stale_tasks(days_inactive, workspace_id): returns the count
mark_stale_tasks(db, days_inactive, workspace_id, t) ==
    LET cutoff == t - days_inactive * MinutesPerDay
        sel == {x \in DOMAIN db.items :
                    /\ IsOpenTask(db.items[x])
                    /\ db.items[x].updated_at.n < cutoff
                    /\ (Truthy(workspace_id) =>
                            PyEq(db.items[x].workspace_id, workspace_id))}
        stale(row) == [row EXCEPT !.status = PyStatus("stale")]
    IN [db |-> [db EXCEPT !.items =
                    [x \in DOMAIN db.items |->
                        IF x \in sel THEN Commit(db.items[x], stale(db.items[x]), t)
                        ELSE db.items[x]]],
        result |-> "count", id |-> "", count |-> Cardinality(sel)]

(***************************************************************************)
(* PersonalWorkflowsService (workflows.py).                                *)
(***************************************************************************)
MinutesPerHour == 60

\* snooze_task(task_id, hours)
snooze_task(db, task_id, hours, t) ==
    IF ~HasRow(db, task_id) THEN Outcome(db, "None", task_id)
    ELSE IF ~Loadable(db.items[task_id]) THEN Outcome(db, "LookupError", task_id)
    ELSE IF db.items[task_id].type # PyType("task") THEN Outcome(db, "None", task_id)
    ELSE Outcome(SetRow(db, task_id,
                     [db.items[task_id] EXCEPT
                         !.due_date = PyDt(t + hours * MinutesPerHour),
                         !.due_at = PyDt(t + hours * MinutesPerHour),
                         !.updated_at = PyDt(t)]),
                 "ok", task_id)

\* reassign_task(task_id, new_assignee_user_id, new_assignee_user_name)
reassign_task(db, task_id, user_id, user_name, t) ==
    IF ~HasRow(db, task_id) THEN Outcome(db, "None", task_id)
    ELSE IF ~Loadable(db.items[task_id]) THEN Outcome(db, "LookupError", task_id)
    ELSE IF db.items[task_id].type # PyType("task") THEN Outcome(db, "None", task_id)
    ELSE Outcome(SetRow(db, task_id,
                     [db.items[task_id] EXCEPT
                         !.assigned_to_user_id = user_id,
                         !.assigned_to_user_name = user_name,
                         !.updated_at = PyDt(t)]),
                 "ok", task_id)

\* change_priority(task_id, priority): ValueError unless priority is 0, 1 or 2
change_priority(db, task_id, priority, t) ==
    IF priority \notin {0, 1, 2} THEN Outcome(db, "ValueError", task_id)
    ELSE IF ~HasRow(db, task_id) THEN Outcome(db, "None", task_id)
    ELSE IF ~Loadable(db.items[task_id]) THEN Outcome(db, "LookupError", task_id)
    ELSE Outcome(SetRow(db, task_id,
                     [db.items[task_id] EXCEPT
                         !.priority = PyI(priority),
                         !.updated_at = PyDt(t)]),
                 "ok", task_id)

(***************************************************************************)
(* Text: a Python str is a string; Ch(s, i) is its i-th character.  The    *)
(* glyphs U+2705 and U+2713 of COMPLETION_PATTERNS are written ~ and ^,    *)
(* the backquote is written |.                                             *)
(***************************************************************************)
\* s[i:i+1]: the i-th character, "" outside the string
Ch(s, i) == IF 1 <= i /\ i <= Len(s) THEN SubSeq(s, i, i) ELSE ""

\* s[i:] starts with p
StartsAt(s, i, p) ==
    /\ i >= 1
    /\ i + Len(p) - 1 <= Len(s)
    /\ SubSeq(s, i, i + Len(p) - 1) = p

\* p in s
Contains(s, p) == p = "" \/ \E i \in 1..Len(s) : StartsAt(s, i, p)

UpperAlpha == "ABCDEFGHIJKLMNOPQRSTUVWXYZ"
LowerAlpha == "abcdefghijklmnopqrstuvwxyz"
Digits == "0123456789"

IsDigit(c) == Len(c) = 1 /\ Contains(Digits, c)
\* \w
IsWord(c) ==
    /\ Len(c) = 1
    /\ (Contains(UpperAlpha, c) \/ Contains(LowerAlpha, c) \/ Contains(Digits, c) \/ c = "_")
\* \s
IsWs(c) == c \in {" ", "\t", "\n", "\r", "\f"}

LowerChar(c) ==
    IF Contains(UpperAlpha, c)
    THEN Ch(LowerAlpha, CHOOSE i \in 1..Len(UpperAlpha) : Ch(UpperAlpha, i) = c)
    ELSE c

\* s.lower()
RECURSIVE Lower(_)
Lower(s) == IF s = "" THEN "" ELSE LowerChar(Ch(s, 1)) \o Lower(SubSeq(s, 2, Len(s)))

\* s.strip()
Strip(s) ==
    LET idx == {i \in 1..Len(s) : ~IsWs(Ch(s, i))}
        first == CHOOSE i \in idx : \A j \in idx : i <= j
        last == CHOOSE i \in idx : \A j \in idx : j <= i
    IN IF idx = {} THEN "" ELSE SubSeq(s, first, last)

\* all characters of s[i..j] satisfy the class
AllWs(s, i, j) == \A q \in i..j : IsWs(Ch(s, q))
AllWord(s, i, j) == \A q \in i..j : IsWord(Ch(s, q))
AllDigit(s, i, j) == \A q \in i..j : IsDigit(Ch(s, q))

\* int(s) of a string of decimal digits
RECURSIVE ParseInt(_)
ParseInt(s) ==
    IF s = "" THEN 0
    ELSE 10 * ParseInt(SubSeq(s, 1, Len(s) - 1))
         + (CHOOSE d \in 0..9 : Ch(Digits, d + 1) = Ch(s, Len(s)))

(***************************************************************************)
(* MessageIngestionService: the extraction functions (ingestion.py).       *)
(***************************************************************************)
\* the regular-expression tail \s+([^?.!]+) matched at position k
TailSentence(s, k) ==
    /\ k + 1 <= Len(s)
    /\ IsWs(Ch(s, k))
    /\ Ch(s, k + 1) \notin {"?", ".", "!"}

\* the regular-expression tail \s*([^\n]+) matched at position k
TailLine(s, k) ==
    \E m \in k..Len(s) : Ch(s, m) # "\n" /\ AllWs(s, k, m - 1)

\* re.search of  lit\s+([^?.!]+)
SearchSentence(s, lit) ==
    \E i \in 1..Len(s) : StartsAt(s, i, lit) /\ TailSentence(s, i + Len(lit))

\* re.search of  lit\s*([^\n]+)
SearchLine(s, lit) ==
    \E i \in 1..Len(s) : StartsAt(s, i, lit) /\ TailLine(s, i + Len(lit))

\* re.search of  @(\w+)\s+lit\s+([^?.!]+)
SearchMentionSentence(s, lit) ==
    \E i \in 1..Len(s) : \E j \in (i + 1)..Len(s) : \E k \in (j + 1)..Len(s) :
        /\ Ch(s, i) = "@"
        /\ AllWord(s, i + 1, j)
        /\ AllWs(s, j + 1, k)
        /\ StartsAt(s, k + 1, lit)
        /\ TailSentence(s, k + 1 + Len(lit))

\* TASK_PATTERNS, in order: whether the i-th pattern is found in s
TaskPatternFound(i, s) ==
    CASE i = 1 -> SearchSentence(s, "can you")
      [] i = 2 -> SearchSentence(s, "please")
      [] i = 3 -> SearchSentence(s, "i need you to")
      [] i = 4 -> SearchLine(s, "todo:")
      [] i = 5 -> SearchMentionSentence(s, "can you")
      [] i = 6 -> SearchMentionSentence(s, "please")
      [] i = 7 -> SearchSentence(s, "i'll")
      [] i = 8 -> SearchSentence(s, "let's")
      [] i = 9 -> SearchSentence(s, "we should")
      [] i = 10 -> SearchLine(s, "action item:")

NTaskPatterns == 10

AnyIn(s, pats) == \E p \in pats : Contains(s, p)

\* A variant of detect_item_type that tries the task patterns before the
\* explicit markers.
detect_item_type_patterns_first(message_text) ==
    LET text_lower == Lower(message_text)
    IN IF AnyIn(text_lower, {"todo:", "action item:", "task:"}) THEN "task"
       ELSE IF \E i \in 1..NTaskPatterns : TaskPatternFound(i, text_lower) THEN "task"
       ELSE IF AnyIn(text_lower, {"decision:", "we decided", "agreed to", "consensus:"})
       THEN "decision"
       ELSE IF AnyIn(text_lower, {"question:", "?", "can someone", "does anyone"})
       THEN "question"
       ELSE IF AnyIn(text_lower, {"announcement:", "announcing", "update:"})
       THEN "announcement"
       ELSE "note"

\* detect_item_type(message_text): the value of the ItemType returned
detect_item_type(message_text) ==
    LET text_lower == Lower(message_text)
    IN IF AnyIn(text_lower, {"todo:", "action item:", "task:"}) THEN "task"
       ELSE IF AnyIn(text_lower, {"decision:", "we decided", "agreed to", "consensus:"})
       THEN "decision"
       ELSE IF AnyIn(text_lower, {"question:", "?", "can someone", "does anyone"})
       THEN "question"
       ELSE IF AnyIn(text_lower, {"announcement:", "announcing", "update:"})
       THEN "announcement"
       ELSE IF \E i \in 1..NTaskPatterns : TaskPatternFound(i, text_lower) THEN "task"
       ELSE "note"

\* re.findall(r"@(\w+)", s)[0]: the word after the first @ that has one
FirstAtMention(s) ==
    LET starts == {i \in 1..Len(s) : Ch(s, i) = "@" /\ i < Len(s) /\ IsWord(Ch(s, i + 1))}
        i0 == CHOOSE i \in starts : \A j \in starts : i <= j
        ends == {j \in (i0 + 1)..Len(s) : AllWord(s, i0 + 1, j)}
        j0 == CHOOSE j \in ends : \A q \in ends : q <= j
    IN IF starts = {} THEN None ELSE PyS(SubSeq(s, i0 + 1, j0))

\* extract_assignee(message_text, mentions): the user id (the name is
\* always None)
extract_assignee(message_text, mentions) ==
    IF Len(mentions) > 0 THEN PyS(mentions[1]) ELSE FirstAtMention(message_text)

(***************************************************************************)
(* extract_due_date (ingestion.py).                                        *)
(***************************************************************************)
\* the match of  lit\s+(a1|a2|...)  that starts at i: the alternative
\* found after the white space, "" when there is no match at i
LitWsAltAt(s, i, lit, alts) ==
    LET k0 == i + Len(lit)
        ks == {k \in (k0 + 1)..Len(s) : AllWs(s, k0, k - 1) /\ ~IsWs(Ch(s, k))}
        k == CHOOSE x \in ks : TRUE
        found == {a \in 1..Len(alts) : StartsAt(s, k, alts[a])}
    IN IF ~StartsAt(s, i, lit) \/ ks = {} \/ found = {} THEN ""
       ELSE alts[CHOOSE a \in found : \A b \in found : a <= b]

\* re.search of  lit\s+(a1|a2|...): the group of the leftmost match, ""
\* when the pattern is not found
SearchLitWsAlt(s, lit, alts) ==
    LET at == {i \in 1..Len(s) : LitWsAltAt(s, i, lit, alts) # ""}
    IN IF at = {} THEN ""
       ELSE LitWsAltAt(s, CHOOSE i \in at : \A j \in at : i <= j, lit, alts)

DayNames == <<"friday", "monday", "tuesday", "wednesday", "thursday", "saturday", "sunday">>

\* day_map
day_map(name) ==
    CASE name = "monday" -> 0
      [] name = "tuesday" -> 1
      [] name = "wednesday" -> 2
      [] name = "thursday" -> 3
      [] name = "friday" -> 4
      [] name = "saturday" -> 5
      [] name = "sunday" -> 6

\* re.search of  by\s+(\d{1,2}/\d{1,2}(?:/\d{2,4})?)
SearchDate(s) ==
    \E i \in 1..Len(s) : \E k \in (i + 3)..Len(s) :
        /\ StartsAt(s, i, "by")
        /\ AllWs(s, i + 2, k - 1)
        /\ IsDigit(Ch(s, k))
        /\ \/ Ch(s, k + 1) = "/" /\ IsDigit(Ch(s, k + 2))
           \/ IsDigit(Ch(s, k + 1)) /\ Ch(s, k + 2) = "/" /\ IsDigit(Ch(s, k + 3))

\* \s+lit matched at position k0
WsThen(s, k0, lit) ==
    \E m \in (k0 + 1)..Len(s) : AllWs(s, k0, m - 1) /\ StartsAt(s, m, lit)

\* the match of  (\d+)\s+(days?|hours?)\s+from now  that starts at i:
\* <<number, unit>>, <<>> when there is no match at i
RelativeAt(s, i) ==
    LET js == {j \in i..Len(s) : AllDigit(s, i, j) /\ ~IsDigit(Ch(s, j + 1))}
        j == CHOOSE x \in js : TRUE
        units == {u \in {"days", "day", "hours", "hour"} :
                     \E k \in (j + 2)..Len(s) :
                         /\ AllWs(s, j + 1, k - 1)
                         /\ StartsAt(s, k, u)
                         /\ WsThen(s, k + Len(u), "from now")}
    IN IF js = {} \/ units = {} THEN <<>>
       ELSE <<ParseInt(SubSeq(s, i, j)),
              IF \E u \in units : Contains(u, "day") THEN "day" ELSE "hour">>

\* re.search of  (\d+)\s+(days?|hours?)\s+from now: the leftmost match
SearchRelative(s) ==
    LET at == {i \in 1..Len(s) : IsDigit(Ch(s, i)) /\ RelativeAt(s, i) # <<>>}
    IN IF at = {} THEN <<>> ELSE RelativeAt(s, CHOOSE i \in at : \A j \in at : i <= j)

\* DUE_DATE_PATTERNS: the pattern types, in order
DUE_DATE_PATTERNS ==
    <<"day_of_week", "today", "end_of_week", "relative", "date", "relative_days",
      "tomorrow", "relative">>

\* whether the i-th pattern of DUE_DATE_PATTERNS is found in s
DuePatternFound(i, s) ==
    CASE i = 1 -> SearchLitWsAlt(s, "by", DayNames) # ""
      [] i = 2 -> SearchLitWsAlt(s, "by", <<"eod", "end of day">>) # ""
      [] i = 3 -> SearchLitWsAlt(s, "by", <<"eow", "end of week">>) # ""
      [] i = 4 -> SearchLitWsAlt(s, "before", <<"standup", "meeting", "demo">>) # ""
      [] i = 5 -> SearchDate(s)
      [] i = 6 -> SearchRelative(s) # <<>>
      [] i = 7 -> Contains(s, "tomorrow")
      [] i = 8 -> SearchLitWsAlt(s, "next", <<"week", "month">>) # ""

\* datetime.weekday(): Monday is 0; day 0 of the epoch is a Thursday
weekday(t) == ((t \div 1440) + 3) % 7

\* t.replace(hour=17, minute=0, second=0, microsecond=0)
At17(t) == (t \div 1440) * 1440 + 17 * 60

\* A variant of DaysAhead that stays on the day itself when it is the
\* target weekday.
DaysAheadSameDay(target, t) == (target - weekday(t)) % 7

\* days until the next weekday `target`, a full week when it is today
DaysAhead(target, t) ==
    LET d == (target - weekday(t)) % 7 IN IF d = 0 THEN 7 ELSE d

\* the pattern types the loop body has a branch for
HandledDueTypes == {"today", "tomorrow", "end_of_week", "day_of_week", "relative_days"}

\* The branch of the loop body taken for pattern type ty: the datetime it
\* returns, or None when the body has no branch for ty and the loop goes
\* on with the next pattern.
DueBranch(ty, s, base_time) ==
    CASE ty = "today" -> PyDt(At17(base_time))
      [] ty = "tomorrow" -> PyDt(At17(base_time + 1440))
      [] ty = "end_of_week" -> PyDt(At17(base_time + DaysAhead(4, base_time) * 1440))
      [] ty = "day_of_week" ->
            PyDt(At17(base_time
                      + DaysAhead(day_map(SearchLitWsAlt(s, "by", DayNames)), base_time) * 1440))
      [] ty = "relative_days" ->
            LET m == SearchRelative(s)
            IN IF m[2] = "day" THEN PyDt(At17(base_time + m[1] * 1440))
               ELSE PyDt(base_time + m[1] * 60)
      [] OTHER -> None

\* the loop over DUE_DATE_PATTERNS from the i-th pattern on
RECURSIVE DueFrom(_, _, _)
DueFrom(i, s, base_time) ==
    IF i > Len(DUE_DATE_PATTERNS) THEN None
    ELSE IF DuePatternFound(i, s) /\ DUE_DATE_PATTERNS[i] \in HandledDueTypes
    THEN DueBranch(DUE_DATE_PATTERNS[i], s, base_time)
    ELSE DueFrom(i + 1, s, base_time)

\* float(message_ts) succeeds: digits with an optional fraction
IsFloat(ts) ==
    \E d \in 1..Len(ts) :
        /\ AllDigit(ts, 1, d)
        /\ \/ d = Len(ts)
           \/ Ch(ts, d + 1) = "." /\ AllDigit(ts, d + 2, Len(ts))

\* datetime.fromtimestamp(float(message_ts)), in minutes
FromTimestamp(ts) ==
    LET ds == {d \in 1..Len(ts) : AllDigit(ts, 1, d)}
        d == CHOOSE x \in ds : \A y \in ds : y <= x
    IN ParseInt(SubSeq(ts, 1, d)) \div 60

\* base_time of extract_due_date: the message time, utcnow() when the
\* timestamp is missing or malformed
BaseTime(message_ts, t) ==
    IF Truthy(message_ts) /\ IsFloat(message_ts.s) THEN FromTimestamp(message_ts.s) ELSE t

\* extract_due_date(message_text, message_ts) at time t
extract_due_date(message_text, message_ts, t) ==
    DueFrom(1, Lower(message_text), BaseTime(message_ts, t))

(***************************************************************************)
(* extract_title, extract_project_topic, completion (ingestion.py).        *)
(***************************************************************************)
\* the end of the maximal run of characters of a class that starts at i,
\* i - 1 when s[i] is not of the class
WordRunEnd(s, i) ==
    LET js == {j \in i..Len(s) : AllWord(s, i, j)}
    IN IF js = {} THEN i - 1 ELSE CHOOSE j \in js : \A q \in js : q <= j

NonWsRunEnd(s, i) ==
    LET js == {j \in i..Len(s) : \A q \in i..j : ~IsWs(Ch(s, q))}
    IN IF js = {} THEN i - 1 ELSE CHOOSE j \in js : \A q \in js : q <= j

\* Http(s, i): the length of  https?://  at i, 0 when it is not there
HttpLen(s, i) ==
    IF StartsAt(s, i, "https://") THEN 8 ELSE IF StartsAt(s, i, "http://") THEN 7 ELSE 0

\* The end of the match at i of the regular expression `re`, 0 when it
\* does not match at i:
\*   "mention"  <@\w+>      "angle"  <https?://[^>]+>
\*   "url"  https?://\S+   "markup"  one of star, underscore, backquote
MatchEnd(re, s, i) ==
    CASE re = "mention" ->
            LET j == WordRunEnd(s, i + 2)
            IN IF StartsAt(s, i, "<@") /\ j >= i + 2 /\ Ch(s, j + 1) = ">" THEN j + 1 ELSE 0
      [] re = "angle" ->
            LET h == HttpLen(s, i + 1)
                es == {e \in (i + 1 + h)..Len(s) : Ch(s, e) = ">"}
                e == CHOOSE x \in es : \A y \in es : x <= y
            IN IF Ch(s, i) = "<" /\ h > 0 /\ es # {} /\ e > i + 1 + h THEN e ELSE 0
      [] re = "url" ->
            LET h == HttpLen(s, i)
                j == NonWsRunEnd(s, i + h)
            IN IF h > 0 /\ j >= i + h THEN j ELSE 0
      [] re = "markup" -> IF Ch(s, i) \in {"*", "_", "|"} THEN i ELSE 0

\* re.sub(re, "", s), scanning from position i
RECURSIVE ReSubFrom(_, _, _)
ReSubFrom(re, s, i) ==
    IF i > Len(s) THEN ""
    ELSE IF MatchEnd(re, s, i) > 0 THEN ReSubFrom(re, s, MatchEnd(re, s, i) + 1)
    ELSE Ch(s, i) \o ReSubFrom(re, s, i + 1)

ReSub(re, s) == ReSubFrom(re, s, 1)

\* s up to the first character of the set seps: s.split(...)[0]
FirstPart(s, seps) ==
    LET at == {i \in 1..Len(s) : Ch(s, i) \in seps}
    IN IF at = {} THEN s ELSE SubSeq(s, 1, (CHOOSE i \in at : \A j \in at : i <= j) - 1)

\* s[:n] of Python, n negative counting from the end
Prefix(s, n) ==
    IF n >= 0 THEN SubSeq(s, 1, IF n < Len(s) THEN n ELSE Len(s))
    ELSE SubSeq(s, 1, IF Len(s) + n > 0 THEN Len(s) + n ELSE 0)

\* extract_title(message_text, max_length)
extract_title(message_text, max_length) ==
    LET text == ReSub("markup", ReSub("url", ReSub("angle", ReSub("mention", message_text))))
        first_line == Strip(FirstPart(text, {"\n"}))
        title == Strip(FirstPart(first_line, {".", "!", "?"}))
        cut == IF Len(title) > max_length THEN Prefix(title, max_length - 3) \o "..." ELSE title
    IN IF cut = "" THEN "Untitled" ELSE cut

\* the default of max_length
DefaultTitleLength == 100

\* re.search(r"project[:\s]+(\w+)", s, re.IGNORECASE): the group of the
\* leftmost match, None when there is none
SearchProject(s) ==
    LET low == Lower(s)
        sep(c) == c = ":" \/ IsWs(c)
        wordAt(i) == CHOOSE k \in (i + 8)..Len(s) :
                        /\ \A q \in (i + 7)..(k - 1) : sep(Ch(s, q))
                        /\ IsWord(Ch(s, k))
        ok(i) == /\ StartsAt(low, i, "project")
                 /\ \E k \in (i + 8)..Len(s) :
                        /\ \A q \in (i + 7)..(k - 1) : sep(Ch(s, q))
                        /\ IsWord(Ch(s, k))
        at == {i \in 1..Len(s) : ok(i)}
        i0 == CHOOSE i \in at : \A j \in at : i <= j
    IN IF at = {} THEN None
       ELSE PyS(SubSeq(s, wordAt(i0), WordRunEnd(s, wordAt(i0))))

\* extract_project_topic(message_text, channel_name): <<project, topic>>
extract_project_topic(message_text, channel_name) ==
    LET project == SearchProject(message_text)
    IN IF Truthy(channel_name)
          /\ AnyIn(Lower(channel_name.s), {"proj-", "project-", "team-"})
       THEN <<channel_name, None>>
       ELSE <<project, None>>

\* COMPLETION_PATTERNS
COMPLETION_PATTERNS == {"done", "finished", "completed", "~", "^", "resolved", "closed"}

\* any(re.search(pattern, message_text.lower()) for pattern in COMPLETION_PATTERNS)
IsCompletion(message_text) == AnyIn(Lower(message_text), COMPLETION_PATTERNS)

(***************************************************************************)
(* ingest_message (ingestion.py) and create_task_from_message              *)
(* (task_management.py).                                                   *)
(***************************************************************************)
\* message_ts.replace('.', '')
RECURSIVE RemoveDots(_)
RemoveDots(s) ==
    IF s = "" THEN ""
    ELSE (IF Ch(s, 1) = "." THEN "" ELSE Ch(s, 1)) \o RemoveDots(SubSeq(s, 2, Len(s)))

\* the length of raw_snippet
SnippetLength == 200
\* the least length of a message that is ingested
MinMessageLength == 10

\* A variant of IsRelevant that measures the text as it came, surrounding
\* whitespace included.
IsRelevantUntrimmed(message_text) ==
    /\ Len(message_text) >= MinMessageLength
    /\ \/ detect_item_type(message_text) # "note"
       \/ AnyIn(Lower(message_text), {"important", "note:", "reminder", "update"})

\* whether ingest_message goes on to create an item for the text
IsRelevant(message_text) ==
    /\ message_text # ""
    /\ Len(Strip(message_text)) >= MinMessageLength
    /\ \/ detect_item_type(message_text) # "note"
       \/ AnyIn(Lower(message_text), {"important", "note:", "reminder", "update"})

\* a or b
PyOr(a, b) == IF Truthy(a) THEN a ELSE b

\* A variant of IngestArgs that names the item after the timestamp of the
\* message, so that a message ingested again updates its item.
IngestArgsKeyed(m) ==
    [ServiceArgs(PyS(detect_item_type(m.text)),
                 PyS(extract_title(m.text, DefaultTitleLength)))
        EXCEPT !.description = PyS(m.text),
               !.status = PyS(IF IsCompletion(m.text) THEN "completed" ELSE "open"),
               !.item_id = m.ts,
               !.assigned_to_user_id = extract_assignee(m.text, m.mentions),
               !.source_channel_id = m.channel,
               !.source_channel_name = m.channel_name,
               !.source_thread_ts = PyOr(m.thread_ts, m.ts),
               !.priority = PyI(0)]

\* the arguments of the upsert_item call of ingest_message
IngestArgs(m) ==
    LET message_ts == m.ts
        source_url ==
            IF Truthy(m.channel) /\ Truthy(message_ts)
            THEN PyS("https://slack.com/archives/" \o m.channel.s \o "/p"
                     \o RemoveDots(message_ts.s))
            ELSE None
    IN [ServiceArgs(PyS(detect_item_type(m.text)),
                    PyS(extract_title(m.text, DefaultTitleLength)))
            EXCEPT !.description = PyS(m.text),
                   !.status = PyS(IF IsCompletion(m.text) THEN "completed" ELSE "open"),
                   !.assigned_to_user_id = extract_assignee(m.text, m.mentions),
                   !.assigned_to_user_name = None,
                   !.source_channel_id = m.channel,
                   !.source_channel_name = m.channel_name,
                   !.source_thread_ts = PyOr(m.thread_ts, m.ts),
                   !.source_url = source_url,
                   !.priority = PyI(0)]

\* the attributes ingest_message assigns after upsert_item returned
IngestFields(m, workspace_id, t) ==
    LET pt == extract_project_topic(m.text, m.channel_name)
        due == extract_due_date(m.text, m.ts, t)
    IN << <<"workspace_id", workspace_id>>,
          <<"raw_snippet",
            PyS(Prefix(m.text, SnippetLength)
                \o (IF Len(m.text) > SnippetLength THEN "..." ELSE ""))>>,
          <<"source_message_ts", m.ts>>,
          <<"requestor_user_id", m.user>>,
          <<"requestor_user_name", m.user_name>>,
          <<"created_by_user_id", m.user>>,
          <<"project", pt[1]>>,
          <<"topic", pt[2]>>,
          <<"due_date", due>>,
          <<"due_at", due>> >>

\* row with the attributes of the dict assigned
Assigned(row, fields) ==
    [c \in ItemColumns |-> IF Has(fields, c) THEN Get(fields, c) ELSE row[c]]

\* The second transaction of ingest_message and create_task_from_message:
\* a new session is opened, the attributes are assigned on the item the
\* first session returned, and the new session is committed and asked to
\* refresh the item.  ok2: whether that session writes the row; when it
\* does not, the call raises and the row stays as upsert_item left it.
SecondCommit(r, fields, ok2, t) ==
    IF r.result # "created" THEN r
    ELSE IF ~ok2 THEN Outcome(r.db, "Error", r.id)
    ELSE Outcome(SetRow(r.db, r.id,
                     Commit(r.db.items[r.id], Assigned(r.db.items[r.id], fields), t)),
                 "item", r.id)

\* what ingest_message computes from the message before it touches the store
Extracted(m, workspace_id, t) ==
    [relevant |-> IsRelevant(m.text),
     args |-> IngestArgs(m),
     fields |-> IngestFields(m, workspace_id, t)]

\* the store operations of ingest_message, e being what it extracted
IngestStore(db, e, dbOk, ok2, t) ==
    IF ~e.relevant THEN Outcome(db, "None", "")
    ELSE SecondCommit(service_upsert_item(db, e.args, dbOk, t), e.fields, ok2, t)

\* ingest_message(message, workspace_id)
ingest_message(db, m, workspace_id, dbOk, ok2, t) ==
    IngestStore(db, Extracted(m, workspace_id, t), dbOk, ok2, t)

\* the arguments of the upsert_item call of create_task_from_message
TaskArgs(a) ==
    [ServiceArgs(PyS("task"), PyS(extract_title(a.message_text, DefaultTitleLength)))
        EXCEPT !.description = PyS(a.message_text),
               !.status = PyS("open"),
               !.assigned_to_user_id = a.assignee_user_id,
               !.assigned_to_user_name = a.assignee_user_name,
               !.source_channel_id = a.source_channel_id,
               !.source_thread_ts = a.source_thread_ts,
               !.priority = a.priority]

\* the store operations of create_task_from_message, args being TaskArgs(a)
TaskStore(db, a, args, dbOk, ok2, t) ==
    SecondCommit(service_upsert_item(db, args, dbOk, t),
                 << <<"requestor_user_id", a.requestor_user_id>>,
                    <<"due_date", a.due_date>>,
                    <<"due_at", a.due_date>> >>,
                 ok2, t)

\* create_task_from_message(message_text, assignee_user_id, ..., priority)
create_task_from_message(db, a, dbOk, ok2, t) ==
    TaskStore(db, a, TaskArgs(a), dbOk, ok2, t)

(***************************************************************************)
(* NotificationPolicyEngine (notifications.py).  A preferences document is *)
(* the JSON object of user_profiles.notification_preferences: keys is the  *)
(* set of keys the object has, a field whose key is absent is not read.    *)
(***************************************************************************)
QuietHours(keys, start, end) == [keys |-> keys, start |-> start, end |-> end]

Preferences(keys, instant_for, batch_everything_else, quiet_hours) ==
    [keys |-> keys, instant_for |-> instant_for,
     batch_everything_else |-> batch_everything_else, quiet_hours |-> quiet_hours]

\* _default_preferences()
DefaultPreferences ==
    Preferences({"instant_for", "batch_everything_else", "quiet_hours", "focus_mode"},
                <<"direct_tasks", "urgent_customer_issues">>, TRUE,
                QuietHours({"start", "end"}, "22:00", "08:00"))

\* the column of a profile: NULL, or a text that is a JSON object or is not
NoPreferences == [k |-> "NoneType", doc |-> DefaultPreferences]
JsonPreferences(doc) == [k |-> "json", doc |-> doc]
BadJson == [k |-> "invalid", doc |-> DefaultPreferences]

\* get_user_preferences(user_id): the document, "JSONDecodeError" in k when
\* json.loads raises
get_user_preferences(profs, user_id) ==
    IF user_id \notin DOMAIN profs \/ profs[user_id].k = "NoneType"
    THEN JsonPreferences(DefaultPreferences)
    ELSE profs[user_id]

\* s.split(":")
RECURSIVE SplitColon(_)
SplitColon(s) ==
    LET at == {i \in 1..Len(s) : Ch(s, i) = ":"}
        i0 == CHOOSE i \in at : \A j \in at : i <= j
    IN IF at = {} THEN <<s>>
       ELSE <<SubSeq(s, 1, i0 - 1)>> \o SplitColon(SubSeq(s, i0 + 1, Len(s)))

\* int(s): surrounding whitespace and one sign are accepted, anything else
\* than decimal digits raises ValueError (ok is FALSE)
PyInt(s) ==
    LET u == Strip(s)
        signed == Ch(u, 1) \in {"+", "-"}
        d == IF signed THEN SubSeq(u, 2, Len(u)) ELSE u
    IN IF d = "" \/ ~AllDigit(d, 1, Len(d)) THEN [ok |-> FALSE, n |-> 0]
       ELSE [ok |-> TRUE, n |-> IF Ch(u, 1) = "-" THEN 0 - ParseInt(d) ELSE ParseInt(d)]

\* hour, minute = map(int, s.split(":")), then hour * 60 + minute
HourMinute(s) ==
    LET parts == SplitColon(s)
    IN IF Len(parts) # 2 \/ ~PyInt(parts[1]).ok \/ ~PyInt(parts[2]).ok
       THEN [ok |-> FALSE, n |-> 0]
       ELSE [ok |-> TRUE, n |-> PyInt(parts[1]).n * 60 + PyInt(parts[2]).n]

\* now.hour * 60 + now.minute
MinuteOfDay(t) == t % MinutesPerDay

\* A variant of is_quiet_hours without the branch for a window that spans
\* midnight.
is_quiet_hours_same_day(preferences, t) ==
    LET quiet_hours == preferences.quiet_hours
        start_str == IF "start" \in quiet_hours.keys THEN quiet_hours.start ELSE "22:00"
        end_str == IF "end" \in quiet_hours.keys THEN quiet_hours.end ELSE "08:00"
        current_time == MinuteOfDay(t)
        start_time == HourMinute(start_str)
        end_time == HourMinute(end_str)
    IN IF "quiet_hours" \notin preferences.keys \/ quiet_hours.keys = {} THEN FALSE
       ELSE IF ~start_time.ok \/ ~end_time.ok THEN FALSE
       ELSE start_time.n <= current_time /\ current_time < end_time.n

\* is_quiet_hours(preferences)
is_quiet_hours(preferences, t) ==
    LET quiet_hours == preferences.quiet_hours
        start_str == IF "start" \in quiet_hours.keys THEN quiet_hours.start ELSE "22:00"
        end_str == IF "end" \in quiet_hours.keys THEN quiet_hours.end ELSE "08:00"
        current_time == MinuteOfDay(t)
        start_time == HourMinute(start_str)
        end_time == HourMinute(end_str)
    IN IF "quiet_hours" \notin preferences.keys \/ quiet_hours.keys = {} THEN FALSE
       ELSE IF ~start_time.ok \/ ~end_time.ok THEN FALSE
       ELSE IF start_time.n > end_time.n
            THEN current_time >= start_time.n \/ current_time < end_time.n
            ELSE start_time.n <= current_time /\ current_time < end_time.n

\* A variant of should_notify_instantly whose urgent_customer_issues rule
\* looks at the project only.
should_notify_instantly_project_only(item, preferences) ==
    LET instant_for == IF "instant_for" \in preferences.keys
                       THEN preferences.instant_for ELSE <<>>
        listed(x) == \E i \in 1..Len(instant_for) : instant_for[i] = x
    IN \/ /\ listed("direct_tasks")
          /\ PyEq(item.type, PyType("task"))
          /\ Truthy(item.assigned_to_user_id)
          /\ item.priority.n >= 1
       \/ /\ listed("urgent_customer_issues")
          /\ item.priority.n = 2
          /\ Truthy(item.project)
          /\ Contains(Lower(item.project.s), "customer")
       \/ /\ listed("high_priority")
          /\ item.priority.n >= 1

\* x in list
InList(x, list) == \E i \in 1..Len(list) : list[i] = x

\* (v or "").lower()
LowerOrEmpty(v) == IF Truthy(v) THEN Lower(v.s) ELSE ""

\* should_notify_instantly(item, preferences)
should_notify_instantly(item, preferences) ==
    LET instant_for == IF "instant_for" \in preferences.keys
                       THEN preferences.instant_for ELSE <<>>
    IN \/ /\ InList("direct_tasks", instant_for)
          /\ PyEq(item.type, PyType("task"))
          /\ Truthy(item.assigned_to_user_id)
          /\ item.priority.n >= 1
       \/ /\ InList("urgent_customer_issues", instant_for)
          /\ item.priority.n = 2
          /\ \/ Contains(LowerOrEmpty(item.project), "customer")
             \/ Contains(LowerOrEmpty(item.source_channel_name), "support")
       \/ /\ InList("high_priority", instant_for)
          /\ item.priority.n >= 1

\* decide_notification_action(item, user_id)
decide_notification_action(profs, item, user_id, t) ==
    LET got == get_user_preferences(profs, user_id)
        preferences == got.doc
    IN IF got.k = "invalid" THEN "JSONDecodeError"
       ELSE IF is_quiet_hours(preferences, t) THEN "batch"
       ELSE IF should_notify_instantly(item, preferences) THEN "instant"
       ELSE IF "batch_everything_else" \notin preferences.keys
               \/ preferences.batch_everything_else THEN "batch"
       ELSE "silent"

(***************************************************************************)
(* Queries.  A SELECT returns the selected rows in an order that agrees    *)
(* with its ORDER BY; rows the ORDER BY does not tell apart come in any    *)
(* order, so a query has a set of possible result lists (of item ids).     *)
(***************************************************************************)
\* ORDER BY: Precedes(a, b) holds when row a must come before row b; the
\* first row of a result is one that no other row must precede
Ordered(db, sel, Precedes(_, _)) ==
    LET RECURSIVE from(_)
        from(S) ==
            IF S = {} THEN {<<>>}
            ELSE UNION {{<<x>> \o f : f \in from(S \ {x})} :
                          x \in {y \in S : \A z \in S : ~Precedes(db.items[z], db.items[y])}}
    IN from(sel)

\* LIMIT n
Limit(f, n) == SubSeq(f, 1, IF Len(f) < n THEN Len(f) ELSE n)

\* the result lists of SELECT ... WHERE sel ORDER BY Precedes LIMIT n
Select(db, sel, Precedes(_, _), n) == {Limit(f, n) : f \in Ordered(db, sel, Precedes)}

\* column.desc() and column.asc().nulls_last() / column.desc().nulls_last()
Desc(c, a, b) == a[c].n > b[c].n
AscNullsLast(c, a, b) == a[c] # None /\ (b[c] = None \/ a[c].n < b[c].n)
DescNullsLast(c, a, b) == a[c] # None /\ (b[c] = None \/ a[c].n > b[c].n)

\* column.ilike("%" + q + "%") for a q without the wildcards % and _
ILike(v, q) == v # None /\ Contains(Lower(v.s), Lower(q))

\* column == value, column.in_(values): never true of a NULL column
ColumnIs(v, x) == v # None /\ v.s = x
ColumnIn(v, xs) == v # None /\ \E i \in 1..Len(xs) : v.s = xs[i]

\* the names bound at module level in workflows.py
WorkflowsGlobals ==
    {"json", "datetime", "timedelta", "Any", "and_", "select", "AgendaItem",
     "ItemStatus", "ItemType", "UserProfile", "AgendaRepository", "AgendaService",
     "get_logger", "logger", "PersonalWorkflowsService",
     "get_personal_workflows_service"}

\* the WHERE clause of get_focus_mode_tasks
FocusCondition(row, user_id, workspace_id, t) ==
    /\ row.type = PyType("task")
    /\ ColumnIs(row.assigned_to_user_id, user_id)
    /\ row.status \in {PyStatus("open"), PyStatus("in_progress")}
    /\ \/ row.priority.n > 0
       \/ /\ row.priority.n = 0
          /\ row.due_date # None
          /\ row.due_date.n <= t + MinutesPerDay
    /\ (Truthy(workspace_id) => ColumnIs(row.workspace_id, workspace_id.s))

\* ORDER BY priority DESC, due_date ASC NULLS LAST
FocusOrder(a, b) ==
    \/ Desc("priority", a, b)
    \/ a.priority = b.priority /\ AscNullsLast("due_date", a, b)

\* get_focus_mode_tasks(user_id, top_n, workspace_id): the statement is
\* built with or_, a name the module neither imports nor defines, so
\* evaluating it raises NameError before any query is sent
get_focus_mode_tasks(db, user_id, top_n, workspace_id, t) ==
    IF "or_" \notin WorkflowsGlobals THEN [exc |-> "NameError", lists |-> {}]
    ELSE [exc |-> "",
          lists |-> Select(db, {x \in DOMAIN db.items :
                                   FocusCondition(db.items[x], user_id, workspace_id, t)},
                           FocusOrder, top_n)]

(***************************************************************************)
(* DigestService.generate_morning_digest (notifications.py).               *)
(***************************************************************************)
\* the names bound at module level in notifications.py
NotificationsGlobals ==
    {"json", "datetime", "timedelta", "Any", "and_", "select", "AgendaItem",
     "ItemStatus", "ItemType", "UserProfile", "AgendaRepository", "AgendaService",
     "get_logger", "logger", "NotificationPolicyEngine", "DigestService",
     "get_notification_engine", "get_digest_service"}

\* a statement without ORDER BY: no row must precede another
NoOrder(a, b) == FALSE

\* _get_tasks_due_on_date(repo, user_id, date, workspace_id)
get_tasks_due_on_date(db, user_id, date, workspace_id) ==
    Ordered(db, {x \in DOMAIN db.items :
                    LET row == db.items[x]
                    IN /\ row.type = PyType("task")
                       /\ ColumnIs(row.assigned_to_user_id, user_id)
                       /\ row.due_date # None
                       /\ row.due_date.n >= date
                       /\ row.due_date.n < date + MinutesPerDay
                       /\ row.status \in {PyStatus("open"), PyStatus("in_progress")}
                       /\ (Truthy(workspace_id) => ColumnIs(row.workspace_id, workspace_id.s))},
            NoOrder)

\* _get_new_items_since(repo, user_id, since, item_type, workspace_id): the
\* statement is built with or_, a name the module neither imports nor
\* defines, so evaluating it raises NameError before any query is sent
get_new_items_since(db, user_id, since, item_type, workspace_id) ==
    IF "or_" \notin NotificationsGlobals THEN [exc |-> "NameError", lists |-> {}]
    ELSE [exc |-> "",
          lists |-> Ordered(db, {x \in DOMAIN db.items :
                        LET row == db.items[x]
                        IN /\ row.type = PyType(item_type)
                           /\ row.created_at.n >= since
                           /\ \/ ColumnIs(row.assigned_to_user_id, user_id)
                              \/ ColumnIs(row.requestor_user_id, user_id)
                           /\ (Truthy(workspace_id)
                                  => ColumnIs(row.workspace_id, workspace_id.s))},
                            NoOrder)]

\* generate_morning_digest(user_id, workspace_id) at time t: the three
\* lists of the digests it may return
generate_morning_digest(db, user_id, workspace_id, t) ==
    LET today_start == (t \div MinutesPerDay) * MinutesPerDay
        yesterday_start == today_start - MinutesPerDay
        tasks_due_today == get_tasks_due_on_date(db, user_id, today_start, workspace_id)
        new_tasks == get_new_items_since(db, user_id, yesterday_start, "task", workspace_id)
        decisions == get_new_items_since(db, user_id, yesterday_start, "decision", workspace_id)
        important(d) == SelectSeq(d, LAMBDA x : db.items[x].priority.n >= 1)
    IN IF new_tasks.exc # "" THEN [exc |-> new_tasks.exc, lists |-> {}]
       ELSE IF decisions.exc # "" THEN [exc |-> decisions.exc, lists |-> {}]
       ELSE IF \E d \in decisions.lists : \E i \in 1..Len(d) : db.items[d[i]].priority = None
       THEN [exc |-> "TypeError", lists |-> {}]
       ELSE [exc |-> "",
             lists |-> {<< <<"tasks_due_today", a>>, <<"new_tasks_24h", b>>,
                           <<"important_decisions_24h", important(c)>> >> :
                          a \in tasks_due_today, b \in new_tasks.lists,
                          c \in decisions.lists}]

(***************************************************************************)
(* SearchService.structured_search (search.py) and ViewsService (views.py) *)
(***************************************************************************)
\* days of a common year before month m; the years 1970 and 1971 are
\* common years
DaysBeforeMonth(m) ==
    <<0, 31, 59, 90, 120, 151, 181, 212, 243, 273, 304, 334>>[m]
DaysInMonth(m) == <<31, 28, 31, 30, 31, 30, 31, 31, 30, 31, 30, 31>>[m]

\* the fields of "YYYY-MM-DD", "YYYY-MM-DDTHH:MM" or "YYYY-MM-DDTHH:MM:SS"
IsoFields(s) ==
    [year |-> ParseInt(SubSeq(s, 1, 4)), month |-> ParseInt(SubSeq(s, 6, 7)),
     day |-> ParseInt(SubSeq(s, 9, 10)),
     hour |-> IF Len(s) >= 16 THEN ParseInt(SubSeq(s, 12, 13)) ELSE 0,
     minute |-> IF Len(s) >= 16 THEN ParseInt(SubSeq(s, 15, 16)) ELSE 0,
     second |-> IF Len(s) = 19 THEN ParseInt(SubSeq(s, 18, 19)) ELSE 0]

\* whether datetime.fromisoformat(s) returns; otherwise it raises ValueError
IsIsoFormat(s) ==
    /\ Len(s) \in {10, 16, 19}
    /\ AllDigit(s, 1, 4) /\ Ch(s, 5) = "-" /\ AllDigit(s, 6, 7)
    /\ Ch(s, 8) = "-" /\ AllDigit(s, 9, 10)
    /\ Len(s) >= 16 => AllDigit(s, 12, 13) /\ Ch(s, 14) = ":" /\ AllDigit(s, 15, 16)
    /\ Len(s) = 19 => Ch(s, 17) = ":" /\ AllDigit(s, 18, 19)
    /\ LET f == IsoFields(s)
       IN /\ f.year >= 1970 /\ f.month \in 1..12
          /\ f.day >= 1 /\ f.day <= DaysInMonth(f.month)
          /\ f.hour < 24 /\ f.minute < 60 /\ f.second < 60

\* datetime.fromisoformat(s), in minutes
fromisoformat(s) ==
    LET f == IsoFields(s)
    IN (((f.year - 1970) * 365 + DaysBeforeMonth(f.month) + f.day - 1) * 24 + f.hour)
           * MinutesPerHour + f.minute

\* a date bound of a filter: a str is parsed, a datetime is taken as it is
DateBound(v) == IF v.k = "str" THEN fromisoformat(v.s) ELSE v.n
DateBoundRaises(v) == Truthy(v) /\ v.k = "str" /\ ~IsIsoFormat(v.s)

\* the members of a type or status clause: those of the list, or the one
\* string
Members(v) == IF v.k = "list" THEN v.l ELSE <<v.s>>

\* [ItemType(t) for t in item_type] / ItemType(item_type) raises ValueError
EnumRaises(cls, v) ==
    /\ Truthy(v)
    /\ \E i \in 1..Len(Members(v)) : ~IsEnumValue(cls, PyS(Members(v)[i]))

\* structured_search(filters, workspace_id, limit)
structured_search(db, filters, workspace_id, limit) ==
    LET item_type == GetOr(filters, "type", None)
        status == GetOr(filters, "status", None)
        assigned_to == GetOr(filters, "assigned_to", None)
        requestor == GetOr(filters, "requestor", None)
        project == GetOr(filters, "project", None)
        query == GetOr(filters, "query", None)
        date_from == GetOr(filters, "date_from", None)
        date_to == GetOr(filters, "date_to", None)
        channel_id == GetOr(filters, "channel_id", None)
        order_by == GetOr(filters, "order_by", PyS("updated_at_desc"))
        conditions(row) ==
            /\ Truthy(item_type) => ColumnIn(row.type, Members(item_type))
            /\ Truthy(status) => ColumnIn(row.status, Members(status))
            /\ Truthy(assigned_to) => ColumnIs(row.assigned_to_user_id, assigned_to.s)
            /\ Truthy(requestor) => ColumnIs(row.requestor_user_id, requestor.s)
            /\ Truthy(project) => ColumnIs(row.project, project.s)
            /\ Truthy(query) => \/ ILike(row.title, query.s)
                                \/ ILike(row.description, query.s)
                                \/ ILike(row.raw_snippet, query.s)
            /\ Truthy(date_from) => row.created_at.n >= DateBound(date_from)
            /\ Truthy(date_to) => row.created_at.n <= DateBound(date_to)
            /\ Truthy(channel_id) => ColumnIs(row.source_channel_id, channel_id.s)
            /\ Truthy(workspace_id) => ColumnIs(row.workspace_id, workspace_id.s)
        precedes(a, b) ==
            IF order_by = PyS("created_at_desc") THEN Desc("created_at", a, b)
            ELSE IF order_by = PyS("due_date_asc") THEN AscNullsLast("due_date", a, b)
            ELSE Desc("updated_at", a, b)
    IN IF \/ EnumRaises("ItemType", item_type) \/ EnumRaises("ItemStatus", status)
          \/ DateBoundRaises(date_from) \/ DateBoundRaises(date_to)
       THEN [exc |-> "ValueError", lists |-> {}]
       ELSE [exc |-> "",
             lists |-> Select(db, {x \in DOMAIN db.items : conditions(db.items[x])},
                              precedes, limit)]

\* _apply_filters(filters, limit)
apply_filters(db, filters, limit) ==
    LET assignees == GetOr(filters, "assignees", None)
        project == GetOr(filters, "project", None)
        topic == GetOr(filters, "topic", None)
        item_type == GetOr(filters, "type", None)
        status == GetOr(filters, "status", None)
        channel_id == GetOr(filters, "channel_id", None)
        date_range == GetOr(filters, "date_range", None)
        date_from == IF Truthy(date_range) THEN GetOr(date_range.d, "from", None) ELSE None
        date_to == IF Truthy(date_range) THEN GetOr(date_range.d, "to", None) ELSE None
        workspace_id == GetOr(filters, "workspace_id", None)
        query == GetOr(filters, "query", None)
        order_by == GetOr(filters, "order_by", PyS("updated_at_desc"))
        conditions(row) ==
            /\ Truthy(assignees) => ColumnIn(row.assigned_to_user_id, Members(assignees))
            /\ Truthy(project) => ColumnIs(row.project, project.s)
            /\ Truthy(topic) => ColumnIs(row.topic, topic.s)
            /\ Truthy(item_type) => ColumnIn(row.type, Members(item_type))
            /\ Truthy(status) => ColumnIn(row.status, Members(status))
            /\ Truthy(channel_id) => ColumnIs(row.source_channel_id, channel_id.s)
            /\ Truthy(date_from) => row.created_at.n >= DateBound(date_from)
            /\ Truthy(date_to) => row.created_at.n <= DateBound(date_to)
            /\ Truthy(workspace_id) => ColumnIs(row.workspace_id, workspace_id.s)
            /\ Truthy(query) => \/ ILike(row.title, query.s)
                                \/ ILike(row.description, query.s)
                                \/ ILike(row.raw_snippet, query.s)
        precedes(a, b) ==
            IF order_by = PyS("due_date_asc") THEN AscNullsLast("due_date", a, b)
            ELSE IF order_by = PyS("due_date_desc") THEN DescNullsLast("due_date", a, b)
            ELSE IF order_by = PyS("priority_desc")
            THEN \/ Desc("priority", a, b)
                 \/ a.priority = b.priority /\ Desc("updated_at", a, b)
            ELSE Desc("updated_at", a, b)
    IN IF \/ EnumRaises("ItemType", item_type) \/ EnumRaises("ItemStatus", status)
          \/ DateBoundRaises(date_from) \/ DateBoundRaises(date_to)
       THEN [exc |-> "ValueError", lists |-> {}]
       ELSE [exc |-> "",
             lists |-> Select(db, {x \in DOMAIN db.items : conditions(db.items[x])},
                              precedes, limit)]

\* json.dumps(filters): a datetime is not JSON serializable (TypeError);
\* the text of a dict of strings, lists and dicts reads back as that dict
JsonSerializable(d) ==
    \A i \in 1..Len(d) :
        /\ d[i][2].k # "datetime"
        /\ d[i][2].k = "dict" => \A j \in 1..Len(d[i][2].d) : d[i][2].d[j][2].k # "datetime"
json_dumps(d) == [k |-> "json", doc |-> d]
json_loads(text) == text.doc

\* View(workspace_id, user_id, name, filters): the row of create_view
View(workspace_id, name, filters) ==
    [workspace_id |-> workspace_id, user_id |-> None, name |-> name,
     is_predefined |-> FALSE, filters |-> filters]

\* create_view(workspace_id, name, filters): the table after the call, the
\* table as it was when json.dumps raises
create_view(vs, workspace_id, name, filters) ==
    LET view_id == "v" \o ToString(Cardinality(DOMAIN vs) + 1)
    IN IF ~JsonSerializable(filters) THEN [views |-> vs, exc |-> "TypeError", id |-> ""]
       ELSE [views |-> [x \in DOMAIN vs \cup {view_id} |->
                           IF x = view_id THEN View(workspace_id, name, json_dumps(filters))
                           ELSE vs[x]],
             exc |-> "", id |-> view_id]

\* execute_view(view_id, limit): [] for a view that does not exist
execute_view(db, vs, view_id, limit) ==
    IF view_id \notin DOMAIN vs THEN [exc |-> "", lists |-> {<<>>}]
    ELSE apply_filters(db, json_loads(vs[view_id].filters), limit)

(***************************************************************************)
(* The calls the environment makes.                                        *)
(***************************************************************************)
\* item_data dicts handed to AgendaRepository.upsert_item (the id is added
\* by the action)
RepoInputs ==
    { << <<"type", PyS("task")>>, <<"title", PyS("t1")>> >>,
      << <<"title", PyS("t2")>>, <<"priority", PyI(1)>> >>,
      << <<"status", PyS("completed")>>, <<"title", PyS("t1")>> >>,
      << <<"type", PyS("memo")>>, <<"title", PyS("t1")>> >>,
      << <<"status", PyS("archived")>> >>,
      << <<"title", None>> >> }

\* parameter records handed to AgendaService.upsert_item (item_id is set
\* by the action)
ServiceInputs ==
    { ServiceArgs(PyS("task"), PyS("t1")),
      [ServiceArgs(PyS("task"), PyS("t1")) EXCEPT !.status = PyS("completed"),
                                                !.priority = PyI(5)],
      [ServiceArgs(PyS("decision"), PyS("t1")) EXCEPT !.assigned_to_user_id = PyS("U1")],
      ServiceArgs(PyS("memo"), PyS("t1")),
      [ServiceArgs(PyS("task"), PyS("t1")) EXCEPT !.status = PyS("archived")] }

\* a Slack message dict; a key the dict lacks reads as None
Message(text, user, ts, channel, channel_name, mentions) ==
    [text |-> text, user |-> user, user_name |-> None, ts |-> ts, thread_ts |-> None,
     channel |-> channel, channel_name |-> channel_name, mentions |-> mentions]

Messages ==
    << Message("todo: send the report by friday", PyS("U1"), PyS("518400.000100"),
               PyS("C1"), PyS("proj-apollo"), <<"U2">>),
       Message("Deploy is done, important reminder", PyS("U2"), None, None, None, <<>>),
       Message("hi there", PyS("U1"), None, None, None, <<>>),
       Message("lunch was great today", PyS("U1"), None, None, None, <<>>),
       Message("  todo: x   ", PyS("U1"), None, None, None, <<>>) >>

\* parameter records handed to create_task_from_message
TaskInputs ==
    { [message_text |-> "please fix the build", assignee_user_id |-> PyS("U1"),
       assignee_user_name |-> None, requestor_user_id |-> PyS("U2"),
       due_date |-> None, source_channel_id |-> None,
       source_thread_ts |-> PyS("518400.000100"), priority |-> PyI(p)] : p \in {1, 7} }

WorkspaceInputs == {PyS("W1")}

\* the clock values of the model
Clock == {k * MinutesPerDay : k \in 0..MaxTicks}

\* Extracted and TaskArgs over the sample inputs, computed once
ExtractedSamples ==
    [i \in 1..Len(Messages) |->
        [w \in WorkspaceInputs |-> [t \in Clock |-> Extracted(Messages[i], w, t)]]]
TaskArgsSamples == [a \in TaskInputs |-> TaskArgs(a)]

StatusInputs == {PyS("open"), PyS("in_progress"), PyS("completed"), PyS("archived")}
PriorityInputs == {1, 3}
UserInputs == {PyS("U1"), PyS("U2")}
ThreadInputs == {PyS("518400.000100")}
ChannelInputs == {None, PyS("C1")}
DaysInputs == {0, 1}
HoursInputs == {2}

\* the ids a caller may name: those of the rows, and one that names no row
Targets == DOMAIN items \cup {"x0"}

WithId(item_data, item_id) == Append(item_data, <<"id", PyS(item_id)>>)

\* the row of no item
NoItem == [c \in ItemColumns |-> None]

\* the record of a call: data is the dict the call received (the item_data
\* of the repository, the filters of a query, the named arguments of a
\* sweep), item and user_id are the arguments of a notification decision,
\* at is the time of a decision or of a sweep, the limit of a query
CallRecord(op, data, ok, result, id, item, user_id, at) ==
    [op |-> op, data |-> data, ok |-> ok, result |-> result, id |-> id,
     item |-> item, user_id |-> user_id, at |-> at]

Call(op, data, ok, r) == CallRecord(op, data, ok, r.result, r.id, NoItem, "", 0)

\* the item_data of a service call: none when the call raised ValueError
ReceivedData(a, r) == IF r.result = "ValueError" THEN <<>> ELSE ServiceItemData(a)

NoCall == CallRecord("init", <<>>, TRUE, "", "", NoItem, "", 0)

\* the database becomes r.db; the bounds of the model cut the behaviours off
Becomes(r) ==
    /\ calls < MaxCalls
    /\ calls' = calls + 1
    /\ items' = r.db.items
    /\ history' = r.db.history
    /\ nextHid' = r.db.nextHid
    /\ nextId' = r.db.nextId
    /\ UNCHANGED <<now, profiles, sess, views, returned>>

Init ==
    /\ items = <<>>
    /\ history = <<>>
    /\ nextHid = 1
    /\ nextId = 0
    /\ now = 0
    /\ profiles = <<>>
    /\ sess = <<>>
    /\ calls = 0
    /\ lastOp = NoCall
    /\ views = <<>>
    /\ returned = <<>>

\* repo.upsert_item(item_data) without an id
RepoInsert ==
    \E d \in RepoInputs, dbOk \in BOOLEAN :
        LET r == upsert_item(DB, d, dbOk, now)
        IN Becomes(r) /\ lastOp' = Call("upsert_item", d, dbOk, r)

\* repo.upsert_item(item_data) with an id
RepoUpdate ==
    \E d \in RepoInputs, x \in Targets, dbOk \in BOOLEAN :
        LET r == upsert_item(DB, WithId(d, x), dbOk, now)
        IN Becomes(r) /\ lastOp' = Call("upsert_item", WithId(d, x), dbOk, r)

\* service.upsert_item(...) without item_id
ServiceInsert ==
    \E a \in ServiceInputs, dbOk \in BOOLEAN :
        LET r == service_upsert_item(DB, a, dbOk, now)
        IN Becomes(r) /\ lastOp' = Call("service.upsert_item", ReceivedData(a, r), dbOk, r)

\* service.upsert_item(..., item_id=x)
ServiceUpdate ==
    \E a \in ServiceInputs, x \in Targets, dbOk \in BOOLEAN :
        LET b == [a EXCEPT !.item_id = PyS(x)]
            r == service_upsert_item(DB, b, dbOk, now)
        IN Becomes(r) /\ lastOp' = Call("service.upsert_item", ReceivedData(b, r), dbOk, r)

MarkCompleted ==
    \E x \in Targets :
        LET r == mark_completed(DB, x, now)
        IN Becomes(r) /\ lastOp' = Call("mark_completed", <<>>, TRUE, r)

Delete ==
    \E x \in Targets :
        LET r == delete(DB, x)
        IN Becomes(r) /\ lastOp' = Call("delete", <<>>, TRUE, r)

UpdateTaskStatus ==
    \E x \in Targets, st \in StatusInputs :
        LET r == update_task_status(DB, x, st, now)
        IN Becomes(r) /\ lastOp' = Call("update_task_status", <<>>, TRUE, r)

CloseTasksInThread ==
    \E th \in ThreadInputs, ch \in ChannelInputs :
        LET r == close_tasks_in_thread(DB, th, ch, now)
        IN Becomes(r) /\ lastOp' = Call("close_tasks_in_thread", <<>>, TRUE, r)

MarkStaleTasks ==
    \E d \in DaysInputs :
        LET r == mark_stale_tasks(DB, d, None, now)
        IN /\ Becomes(r)
           /\ lastOp' = CallRecord("mark_stale_tasks", << <<"days_inactive", PyI(d)>> >>,
                                    TRUE, ToString(r.count), "", NoItem, "", now)

SnoozeTask ==
    \E x \in Targets, h \in HoursInputs :
        LET r == snooze_task(DB, x, h, now)
        IN Becomes(r) /\ lastOp' = Call("snooze_task", <<>>, TRUE, r)

ReassignTask ==
    \E x \in Targets, u \in UserInputs :
        LET r == reassign_task(DB, x, u, None, now)
        IN Becomes(r) /\ lastOp' = Call("reassign_task", <<>>, TRUE, r)

ChangePriority ==
    \E x \in Targets, p \in PriorityInputs :
        LET r == change_priority(DB, x, p, now)
        IN Becomes(r) /\ lastOp' = Call("change_priority", <<>>, TRUE, r)

IngestMessage ==
    \E i \in 1..Len(Messages), w \in WorkspaceInputs, dbOk \in BOOLEAN, ok2 \in BOOLEAN :
        LET r == IngestStore(DB, ExtractedSamples[i][w][now], dbOk, ok2, now)
        IN Becomes(r) /\ lastOp' = Call("ingest_message",
                                        << <<"text", PyS(Messages[i].text)>> >>,
                                        dbOk /\ ok2, r)

CreateTaskFromMessage ==
    \E a \in TaskInputs, dbOk \in BOOLEAN, ok2 \in BOOLEAN :
        LET r == TaskStore(DB, a, TaskArgsSamples[a], dbOk, ok2, now)
        IN Becomes(r) /\ lastOp' = Call("create_task_from_message", <<>>, dbOk /\ ok2, r)

\* the clock advances by a day
Tick ==
    /\ now < MaxTicks * MinutesPerDay
    /\ now' = now + MinutesPerDay
    /\ UNCHANGED <<items, history, nextHid, nextId, profiles, sess, lastOp, calls, views, returned>>

Next ==
    \/ RepoInsert
    \/ RepoUpdate
    \/ ServiceInsert
    \/ ServiceUpdate
    \/ MarkCompleted
    \/ Delete
    \/ UpdateTaskStatus
    \/ CloseTasksInThread
    \/ MarkStaleTasks
    \/ SnoozeTask
    \/ ReassignTask
    \/ ChangePriority
    \/ IngestMessage
    \/ CreateTaskFromMessage
    \/ Tick

Spec == Init /\ [][Next]_vars

(***************************************************************************)
(* The status operations on a store that holds a completed task.           *)
(***************************************************************************)
\* the store after a task was inserted and marked completed at time 0
CompletedStore ==
    mark_completed(upsert_item([items |-> <<>>, history |-> <<>>, nextHid |-> 1, nextId |-> 0],
                               << <<"type", PyS("task")>>, <<"title", PyS("t1")>> >>,
                               TRUE, 0).db,
                   "u1", 0).db

InitStatus ==
    /\ items = CompletedStore.items
    /\ history = CompletedStore.history
    /\ nextHid = CompletedStore.nextHid
    /\ nextId = CompletedStore.nextId
    /\ now = 0
    /\ profiles = <<>>
    /\ sess = <<>>
    /\ calls = 0
    /\ lastOp = NoCall
    /\ views = <<>>
    /\ returned = <<>>

NextStatus ==
    \/ UpdateTaskStatus
    \/ ServiceUpdate
    \/ MarkCompleted
    \/ MarkStaleTasks
    \/ Tick

SpecStatus == InitStatus /\ [][NextStatus]_vars

(***************************************************************************)
(* Two upserts of one existing item running concurrently.  A coroutine is  *)
(* suspended only at an await: at get_by_id, and at commit.  Between the   *)
(* two it computes the changes and the history rows from the row it read.  *)
(***************************************************************************)
RaceId == "u1"

\* the row both upserts name, as an earlier upsert_item created it
RaceItem == DbCoerce(AgendaItem(<< <<"type", PyType("task")>>, <<"title", PyS("t1")>> >>, 0))

RaceInputs ==
    { << <<"title", PyS("a")>>, <<"priority", PyI(1)>> >>,
      << <<"title", PyS("b")>> >>,
      << <<"title", PyS("t1")>>, <<"status", PyS("in_progress")>> >>,
      << <<"priority", PyI(2)>>, <<"assigned_to_user_id", PyS("U1")>> >> }

Sessions == {"A", "B"}

Session(pc, data, existing, before, result) ==
    [pc |-> pc, data |-> data, existing |-> existing, before |-> before, result |-> result]

InitRace ==
    /\ items = [x \in {RaceId} |-> RaceItem]
    /\ history = <<>>
    /\ nextHid = 1
    /\ nextId = 1
    /\ now = 0
    /\ profiles = <<>>
    /\ sess = [p \in Sessions |-> Session("idle", <<>>, RaceItem, RaceItem, "")]
    /\ calls = 0
    /\ lastOp = NoCall
    /\ views = <<>>
    /\ returned = <<>>

\* upsert_item up to its commit: get_by_id returns the row
RaceRead(p) ==
    /\ sess[p].pc = "idle"
    /\ \E d \in RaceInputs :
        sess' = [sess EXCEPT ![p] = Session("read", WithId(d, RaceId), items[RaceId],
                                            items[RaceId], "")]
    /\ UNCHANGED <<items, history, nextHid, nextId, now, profiles, lastOp, calls, views, returned>>

\* upsert_item from its commit on: the changes computed from the row that
\* was read are written on the table as it is now
RaceCommit(p) ==
    /\ sess[p].pc = "read"
    /\ LET r == UpdateExisting(DB, RaceId, sess[p].existing, sess[p].data, TRUE, now)
       IN /\ items' = r.db.items
          /\ history' = r.db.history
          /\ nextHid' = r.db.nextHid
          /\ sess' = [sess EXCEPT ![p] = Session("done", sess[p].data, sess[p].existing,
                                                 items[RaceId], r.result)]
          /\ lastOp' = Call("upsert_item", sess[p].data, TRUE, r)
    /\ UNCHANGED <<nextId, now, profiles, calls, views, returned>>

NextRace ==
    \/ \E p \in Sessions : RaceRead(p)
    \/ \E p \in Sessions : RaceCommit(p)

SpecRace == InitRace /\ [][NextRace]_vars

(***************************************************************************)
(* The notification decision over profiles, items and times of day.        *)
(***************************************************************************)
\* "HH:MM" of an hour and a minute
HHMM(h, m) == Pad2(h) \o ":" \o Pad2(m)

\* quiet-hours windows: <<start hour, start minute, end hour, end minute>>
Windows == {<<22, 0, 8, 0>>, <<9, 0, 17, 30>>}

WindowHours(w) == QuietHours({"start", "end"}, HHMM(w[1], w[2]), HHMM(w[3], w[4]))

ProfileSamples ==
    {NoPreferences, BadJson}
    \cup {JsonPreferences(Preferences({"instant_for", "batch_everything_else", "quiet_hours"},
                                      <<"direct_tasks">>, b, WindowHours(w))) :
            b \in BOOLEAN, w \in Windows}
    \cup {JsonPreferences(Preferences({"instant_for", "batch_everything_else"},
                                      <<"direct_tasks">>, FALSE, QuietHours({}, "", ""))),
          JsonPreferences(Preferences({"instant_for", "quiet_hours"},
                                      <<"high_priority", "urgent_customer_issues">>, TRUE,
                                      QuietHours({"start", "end"}, "late", "08:00"))),
          JsonPreferences(Preferences({"quiet_hours"}, <<>>, TRUE,
                                      QuietHours({"end"}, "", "06:15"))),
          JsonPreferences(Preferences({"instant_for", "batch_everything_else", "quiet_hours"},
                                      <<"high_priority">>, FALSE,
                                      WindowHours(<<22, 0, 8, 0>>))),
          JsonPreferences(Preferences({"instant_for", "quiet_hours"},
                                      <<"urgent_customer_issues">>, TRUE,
                                      WindowHours(<<9, 0, 17, 30>>)))}

\* U1 has a profile row, U2 has none
NotifyUsers == {"U1", "U2"}

NotifyItem(type, assignee, priority, project, channel_name) ==
    DbCoerce(AgendaItem(<< <<"type", PyType(type)>>, <<"title", PyS("t1")>>,
                           <<"assigned_to_user_id", assignee>>,
                           <<"priority", PyI(priority)>>, <<"project", project>>,
                           <<"source_channel_name", channel_name>> >>, 0))

NotifyItems ==
    { NotifyItem("task", PyS("U1"), 2, None, None),
      NotifyItem("task", PyS("U2"), 1, None, None),
      NotifyItem("task", None, 2, None, None),
      NotifyItem("task", PyS("U1"), 0, None, None),
      NotifyItem("decision", PyS("U1"), 2, PyS("Customer-Portal"), None),
      NotifyItem("note", None, 1, None, PyS("eu-support")),
      NotifyItem("question", None, 2, None, PyS("EU-Support")) }

\* times of day at which a decision is asked for, minutes after midnight
NotifyTimes == {0, 6 * 60 + 15, 7 * 60 + 59, 8 * 60, 12 * 60, 17 * 60 + 30,
                21 * 60 + 59, 22 * 60, 23 * 60}

InitNotify ==
    /\ items = <<>>
    /\ history = <<>>
    /\ nextHid = 1
    /\ nextId = 0
    /\ now = 0
    /\ profiles \in [{"U1"} -> ProfileSamples]
    /\ sess = <<>>
    /\ calls = 0
    /\ lastOp = NoCall
    /\ views = <<>>
    /\ returned = <<>>

\* decide_notification_action(item, user_id)
Decide ==
    \E item \in NotifyItems, u \in NotifyUsers :
        /\ lastOp' = CallRecord("decide_notification_action", <<>>, TRUE,
                                 decide_notification_action(profiles, item, u, now),
                                 "", item, u, now)
        /\ UNCHANGED <<items, history, nextHid, nextId, now, profiles, sess, calls, views, returned>>

\* the clock moves on to a later time of the day
ClockAdvance ==
    /\ \E t \in NotifyTimes : t > now /\ now' = t
    /\ UNCHANGED <<items, history, nextHid, nextId, profiles, sess, lastOp, calls, views, returned>>

NextNotify == Decide \/ ClockAdvance

SpecNotify == InitNotify /\ [][NextNotify]_vars

(***************************************************************************)
(* Queries over a store of five items.                                     *)
(***************************************************************************)
\* views kept at a time
MaxViews == 1

HalfDay == 12 * MinutesPerHour

\* the time at which the queries are made
SearchNow == 6 * HalfDay

\* the item_data of the five items, inserted half a day apart from time 0
SearchData ==
    << << <<"type", PyS("task")>>, <<"title", PyS("Fix login")>>,
          <<"assigned_to_user_id", PyS("U1")>>, <<"project", PyS("apollo")>>,
          <<"due_date", PyDt(SearchNow + HalfDay)>> >>,
       << <<"type", PyS("decision")>>, <<"title", PyS("Use Postgres")>>,
          <<"assigned_to_user_id", PyS("U2")>>, <<"project", PyS("apollo")>>,
          <<"priority", PyI(2)>> >>,
       << <<"type", PyS("task")>>, <<"title", PyS("Write LOGIN tests")>>,
          <<"status", PyS("in_progress")>>, <<"assigned_to_user_id", PyS("U1")>>,
          <<"requestor_user_id", PyS("U2")>>, <<"source_channel_id", PyS("C1")>>,
          <<"priority", PyI(1)>>, <<"due_date", PyDt(2000)>> >>,
       << <<"type", PyS("task")>>, <<"title", PyS("Plan offsite")>>,
          <<"assigned_to_user_id", PyS("U1")>>,
          <<"due_date", PyDt(SearchNow + 3 * MinutesPerDay)>> >>,
       << <<"type", PyS("question")>>, <<"title", PyS("Which login flow")>>,
          <<"requestor_user_id", PyS("U1")>>, <<"priority", PyI(1)>> >> >>

\* the database after the first k inserts
RECURSIVE Stored(_)
Stored(k) ==
    IF k = 0 THEN [items |-> <<>>, history |-> <<>>, nextHid |-> 1, nextId |-> 0]
    ELSE upsert_item(Stored(k - 1), SearchData[k], TRUE, (k - 1) * HalfDay).db

\* the store the queries run on: the five inserts, then an update of the
\* description of the first item
SearchStore ==
    upsert_item(Stored(5), << <<"id", PyS("u1")>>, <<"description", PyS("see the Login page")>> >>,
                TRUE, 5 * HalfDay).db

\* filter specifications
FilterInputs ==
    { <<>>,
      << <<"type", PyList(<<"task", "decision">>)>> >>,
      << <<"type", PyS("task")>>, <<"status", PyList(<<"open", "in_progress">>)>>,
         <<"order_by", PyS("due_date_asc")>> >>,
      << <<"assigned_to", PyS("U1")>> >>,
      << <<"requestor", PyS("U2")>> >>,
      << <<"order_by", PyS("priority_desc")>> >>,
      << <<"order_by", PyS("created_at_desc")>> >>,
      << <<"order_by", PyS("due_date_asc")>> >>,
      << <<"query", PyS("login")>>, <<"status", PyS("open")>> >>,
      << <<"type", PyList(<<"task", "decision">>)>>, <<"project", PyS("apollo")>> >>,
      << <<"date_from", PyS("1970-01-01T12:00")>>, <<"date_to", PyS("1970-01-02")>> >>,
      << <<"date_from", PyDt(2 * HalfDay)>> >>,
      << <<"type", PyS("memo")>> >>,
      << <<"channel_id", PyS("C1")>>, <<"status", PyS("in_progress")>> >>,
      << <<"assignees", PyList(<<"U2">>)>>,
         <<"date_range", PyDict(<< <<"from", PyS("1970-01-01T12:00")>> >>)>> >>,
      << <<"date_from", PyS("yesterday")>> >>,
      << <<"date_range", PyDict(<< <<"to", PyS("soon")>> >>)>> >> }

LimitInputs == {2, 50}

InitSearch ==
    /\ items = SearchStore.items
    /\ history = SearchStore.history
    /\ nextHid = SearchStore.nextHid
    /\ nextId = SearchStore.nextId
    /\ now = SearchNow
    /\ profiles = <<>>
    /\ sess = <<>>
    /\ calls = 0
    /\ lastOp = NoCall
    /\ views = <<>>
    /\ returned = <<>>

\* a query answers with one of its result lists, or raises
Answers(op, data, id, user_id, n, r) ==
    IF r.exc # ""
    THEN /\ lastOp' = CallRecord(op, data, FALSE, r.exc, id, NoItem, user_id, n)
         /\ returned' = <<>>
    ELSE \E l \in r.lists :
            /\ lastOp' = CallRecord(op, data, TRUE, "list", id, NoItem, user_id, n)
            /\ returned' = l

\* structured_search(filters, None, limit)
StructuredSearch ==
    \E f \in FilterInputs, limit \in LimitInputs :
        /\ Answers("structured_search", f, "", "", limit, structured_search(DB, f, None, limit))
        /\ UNCHANGED <<items, history, nextHid, nextId, now, profiles, sess, calls, views>>

\* create_view("W1", "mine", filters)
CreateView ==
    \E f \in FilterInputs :
        LET r == create_view(views, "W1", "mine", f)
        IN /\ Cardinality(DOMAIN views) < MaxViews
           /\ views' = r.views
           /\ lastOp' = CallRecord("create_view", f, r.exc = "",
                                    IF r.exc = "" THEN "view" ELSE r.exc, r.id,
                                    NoItem, "", 0)
           /\ returned' = <<>>
           /\ UNCHANGED <<items, history, nextHid, nextId, now, profiles, sess, calls>>

\* delete_view(view_id)
DeleteView ==
    \E v \in DOMAIN views :
        /\ views' = [x \in DOMAIN views \ {v} |-> views[x]]
        /\ lastOp' = CallRecord("delete_view", <<>>, TRUE, "True", v, NoItem, "", 0)
        /\ returned' = <<>>
        /\ UNCHANGED <<items, history, nextHid, nextId, now, profiles, sess, calls>>

\* execute_view(view_id, limit)
ExecuteView ==
    \E v \in DOMAIN views \cup {"v0"}, limit \in LimitInputs :
        /\ Answers("execute_view",
                   IF v \in DOMAIN views THEN json_loads(views[v].filters) ELSE <<>>,
                   v, "", limit, execute_view(DB, views, v, limit))
        /\ UNCHANGED <<items, history, nextHid, nextId, now, profiles, sess, calls, views>>

\* get_focus_mode_tasks(user_id, top_n)
GetFocusModeTasks ==
    \E u \in {"U1", "U2"}, top_n \in {1, 5} :
        /\ Answers("get_focus_mode_tasks", <<>>, "", u, top_n,
                   get_focus_mode_tasks(DB, u, top_n, None, now))
        /\ UNCHANGED <<items, history, nextHid, nextId, now, profiles, sess, calls, views>>

\* generate_morning_digest(user_id)
GenerateMorningDigest ==
    \E u \in {"U1", "U2"} :
        /\ Answers("generate_morning_digest", <<>>, "", u, 0,
                   generate_morning_digest(DB, u, None, now))
        /\ UNCHANGED <<items, history, nextHid, nextId, now, profiles, sess, calls, views>>

NextSearch ==
    \/ StructuredSearch
    \/ CreateView
    \/ DeleteView
    \/ ExecuteView
    \/ GetFocusModeTasks
    \/ GenerateMorningDigest

SpecSearch == InitSearch /\ [][NextSearch]_vars

(***************************************************************************)
(* The extraction functions over sample texts and reference times.         *)
(***************************************************************************)
\* texts for detect_item_type: an opening, a body and a closing
DetectHeads == {"", "TODO: ", "decision: ", "Question: ", "announcement: ", "we decided "}
DetectBodies == {"ship it", "can you ship it", "please ship it", "ship it?"}
DetectTails == {"", " update: later", " task: x", " agreed to"}
DetectTexts == {h \o b \o t : h \in DetectHeads, b \in DetectBodies, t \in DetectTails}

\* texts for extract_due_date
DueTexts ==
    {"let's sync by " \o DayNames[i] : i \in 1..Len(DayNames)}
    \cup {"Tomorrow or BY Friday", "by  monday at the latest", "ship it tomorrow",
          "no date here", "ship by 1/9", "ship by 1/9/1970 or tomorrow",
          "ready before standup"}

\* message_ts: absent, well-formed (a Wednesday), malformed
TsInputs == {None, PyS("518400.000100"), PyS("soon")}

\* the times of the calls: 09:00 and 18:30 of fourteen days
ReferenceTimes == {d * MinutesPerDay + m : d \in 0..13, m \in {9 * 60, 18 * 60 + 30}}

\* texts and lengths for extract_title
TitleTexts ==
    {"Fix the login page. Then rest", "<@U1> *please* see https://x.io now", "Deploy",
     "<@U1>", ""}
TitleLengths == {0, 2, 5, 8, 100}

\* detect_item_type, extract_due_date and extract_title over the samples,
\* computed once
TitleSamples == [x \in TitleTexts |-> [n \in TitleLengths |-> extract_title(x, n)]]
DetectSamples == [x \in DetectTexts |-> detect_item_type(x)]
DueSamples ==
    [x \in DueTexts |-> [ts \in TsInputs |-> [t \in ReferenceTimes |->
        extract_due_date(x, ts, t)]]]

InitExtract ==
    /\ items = <<>>
    /\ history = <<>>
    /\ nextHid = 1
    /\ nextId = 0
    /\ now \in ReferenceTimes
    /\ profiles = <<>>
    /\ sess = <<>>
    /\ calls = 0
    /\ lastOp = NoCall
    /\ views = <<>>
    /\ returned = <<>>

\* detect_item_type(message_text)
DetectItemType ==
    \E x \in DetectTexts :
        /\ lastOp' = CallRecord("detect_item_type", << <<"message_text", PyS(x)>> >>, TRUE,
                                 DetectSamples[x], "", NoItem, "", now)
        /\ UNCHANGED <<items, history, nextHid, nextId, now, profiles, sess, calls, views, returned>>

\* extract_due_date(message_text, message_ts); the result is recorded as
\* str() prints it
ExtractDueDate ==
    \E x \in DueTexts, ts \in TsInputs :
        /\ lastOp' = CallRecord("extract_due_date",
                                 << <<"message_text", PyS(x)>>, <<"message_ts", ts>> >>, TRUE,
                                 PyStr(DueSamples[x][ts][now]), "", NoItem, "", now)
        /\ UNCHANGED <<items, history, nextHid, nextId, now, profiles, sess, calls, views, returned>>

\* extract_title(message_text, max_length)
ExtractTitle ==
    \E x \in TitleTexts, n \in TitleLengths :
        /\ lastOp' = CallRecord("extract_title",
                                 << <<"message_text", PyS(x)>>, <<"max_length", PyI(n)>> >>,
                                 TRUE, TitleSamples[x][n], "", NoItem, "", now)
        /\ UNCHANGED <<items, history, nextHid, nextId, now, profiles, sess, calls, views, returned>>

NextExtract == DetectItemType \/ ExtractDueDate \/ ExtractTitle

SpecExtract == InitExtract /\ [][NextExtract]_vars

(***************************************************************************)
(* Properties.                                                             *)
(***************************************************************************)
UpsertOps == {"upsert_item", "service.upsert_item"}

\* C1: every stored item whose status is completed has a completed
\* timestamp that is not null.
C1_CompletedHasTimestamp ==
    \A x \in DOMAIN items :
        PyEq(items[x].status, PyStatus("completed")) => items[x].completed_at # None

\* the triples <<field, str(stored value), str(supplied value)>> of the
\* supplied fields whose value is not the stored one
ExpectedHistory(row, data) ==
    {<<data[i][1], PyStr(row[data[i][1]]), PyStr(data[i][2])>> :
        i \in {j \in 1..Len(data) : /\ data[j][1] # "id"
                                   /\ data[j][1] \in ItemColumns
                                   /\ ~PyEq(row[data[j][1]], data[j][2])}}

\* C2: an upsert that names an existing item and succeeds appends exactly
\* one history row for each supplied field, id excepted, whose value is
\* not the stored one, with the name of the field, the stored value as a
\* string and the supplied value as a string, and appends no row for a
\* supplied field whose value is the stored one.
C2_OneRowPerChangedField ==
    [][(calls' # calls /\ lastOp'.op \in UpsertOps /\ lastOp'.result = "updated")
        => LET id == lastOp'.id
               added == SubSeq(history', Len(history) + 1, Len(history'))
               expected == ExpectedHistory(items[id], lastOp'.data)
           IN /\ Len(history') >= Len(history)
              /\ SubSeq(history', 1, Len(history)) = history
              /\ Len(added) = Cardinality(expected)
              /\ {<<added[i].field_changed, added[i].old_value, added[i].new_value>> :
                    i \in 1..Len(added)} = expected
              /\ \A i \in 1..Len(added) : added[i].item_id = id]_vars

\* C2 happens: an update has written a row for a changed field and none
\* for a supplied field that kept its value.
C2_Witness ==
    /\ lastOp.op = "upsert_item"
    /\ lastOp.result = "updated"
    /\ \E i \in 1..Len(history) :
          /\ history[i].item_id = lastOp.id
          /\ Has(lastOp.data, history[i].field_changed)
    /\ \E j \in 1..Len(lastOp.data) :
          /\ lastOp.data[j][1] # "id"
          /\ \A i \in 1..Len(history) : history[i].field_changed # lastOp.data[j][1]

\* the history rows whose item is not among the ids of gone
KeptHistory(h, gone) ==
    LET keep(r) == r.item_id \notin gone
    IN SelectSeq(h, keep)

WriteFails(call) ==
    \/ ~call.ok
    \/ \E i \in 1..Len(call.data) :
          call.data[i][1] \in NotNullColumns /\ call.data[i][2] = None

\* C4: an upsert in which a write fails raises the store error and leaves
\* every item row and every history row as it was before the call.
C4_FailedUpsertChangesNothing ==
    [][(/\ calls' # calls
        /\ lastOp'.op \in UpsertOps
        /\ lastOp'.result # "ValueError"
        /\ WriteFails(lastOp'))
        => /\ lastOp'.result = "AgendaDBError"
           /\ items' = items
           /\ history' = history
           /\ nextHid' = nextHid]_vars

\* C4 happens: an update that would have changed a field of an existing
\* item failed at its commit.
C4_Witness ==
    /\ lastOp.op = "upsert_item"
    /\ ~lastOp.ok
    /\ lastOp.result = "AgendaDBError"
    /\ lastOp.id \in DOMAIN items
    /\ \E j \in 1..Len(lastOp.data) :
          /\ lastOp.data[j][1] \in ItemColumns
          /\ ~PyEq(items[lastOp.id][lastOp.data[j][1]], lastOp.data[j][2])

\* C5: an item that ingest_message created is stored together with the
\* fields extracted from the message: workspace, raw snippet, requestor
\* and creator are never missing from it.
C5_IngestIsOneUnit ==
    (lastOp.op = "ingest_message" /\ lastOp.id \in DOMAIN items)
        => /\ items[lastOp.id].workspace_id # None
           /\ items[lastOp.id].raw_snippet # None
           /\ items[lastOp.id].requestor_user_id # None
           /\ items[lastOp.id].created_by_user_id # None

\* C7: no stored item has a type or a status outside the enumerations.
C7_EnumValuesOnly ==
    \A x \in DOMAIN items :
        /\ IsEnumValue("ItemType", items[x].type)
        /\ IsEnumValue("ItemStatus", items[x].status)

\* C8: the priority of every stored item is 0, 1 or 2.
C8_PriorityInRange ==
    \A x \in DOMAIN items : items[x].priority \in {PyI(0), PyI(1), PyI(2)}

\* the values the two upserts supply for column c
RaceSupplied(c) ==
    {Get(sess[p].data, c) : p \in {q \in Sessions : Has(sess[q].data, c)}}

\* C6: when two upserts of one item have both committed, both have
\* succeeded, every history row of both is stored, every column that an
\* upsert supplied holds a value that one of the two supplied, and no
\* other column but updated_at has changed.
C6_LastWriterWins ==
    (\A p \in Sessions : sess[p].pc = "done")
        => /\ \A p \in Sessions : sess[p].result = "updated"
           /\ Len(history) = Cardinality(ExpectedHistory(sess["A"].existing, sess["A"].data))
                             + Cardinality(ExpectedHistory(sess["B"].existing, sess["B"].data))
           /\ \A c \in ItemColumns \ {"updated_at"} :
                 IF RaceSupplied(c) = {} THEN items[RaceId][c] = RaceItem[c]
                 ELSE \E v \in RaceSupplied(c) : PyEq(items[RaceId][c], v)

\* C6 happens: a committed history row holds as old value a value that
\* was not the stored one when its upsert committed.
C6_Witness ==
    /\ \A p \in Sessions : sess[p].pc = "done"
    /\ \E p \in Sessions : \E i \in 1..Len(history) :
          /\ Has(sess[p].data, history[i].field_changed)
          /\ history[i].new_value = PyStr(Get(sess[p].data, history[i].field_changed))
          /\ history[i].old_value = PyStr(sess[p].existing[history[i].field_changed])
          /\ history[i].old_value # PyStr(sess[p].before[history[i].field_changed])

\* the time of day m lies in the window w
InWindow(w, m) ==
    LET start == w[1] * 60 + w[2]
        end == w[3] * 60 + w[4]
    IN IF start > end THEN m >= start \/ m < end ELSE start <= m /\ m < end

\* the quiet-hours windows of user u: the one of the stored preferences,
\* 22:00 to 08:00 for a user without preferences
UserWindows(u) ==
    IF u \notin DOMAIN profiles \/ profiles[u].k = "NoneType" THEN {<<22, 0, 8, 0>>}
    ELSE IF profiles[u].k = "json" /\ "quiet_hours" \in profiles[u].doc.keys
    THEN {w \in Windows : profiles[u].doc.quiet_hours = WindowHours(w)}
    ELSE {}

\* C9: a decision asked for at a time inside the quiet-hours window of the
\* user is batch, whatever the item.
C9_QuietHoursBatch ==
    lastOp.op = "decide_notification_action"
        => \A w \in UserWindows(lastOp.user_id) :
              InWindow(w, lastOp.at % MinutesPerDay) => lastOp.result = "batch"

\* C9 happens: at 23:00, window 22:00 to 08:00, an urgent task assigned
\* to the user, whose preferences make direct tasks instant, is batched.
C9_Witness ==
    /\ lastOp.op = "decide_notification_action"
    /\ lastOp.at = 23 * 60
    /\ lastOp.user_id = "U1"
    /\ profiles["U1"].k = "json"
    /\ profiles["U1"].doc.instant_for = <<"direct_tasks">>
    /\ UserWindows("U1") = {<<22, 0, 8, 0>>}
    /\ lastOp.item = NotifyItem("task", PyS("U1"), 2, None, None)
    /\ lastOp.result = "batch"

\* direct_tasks is the only entry of the instant_for list of user u
DirectTasksOnly(u) ==
    /\ u \in DOMAIN profiles
    /\ profiles[u].k = "json"
    /\ "instant_for" \in profiles[u].doc.keys
    /\ profiles[u].doc.instant_for = <<"direct_tasks">>

\* the time of day m is outside the quiet hours of user u
OutsideQuietHours(u, m) ==
    \/ "quiet_hours" \notin profiles[u].doc.keys
    \/ profiles[u].doc.quiet_hours.keys = {}
    \/ UserWindows(u) # {} /\ \A w \in UserWindows(u) : ~InWindow(w, m)

\* C10: outside quiet hours and with direct_tasks as the only entry of
\* instant_for, the decision is instant exactly when the item is a task,
\* is assigned to the user the decision is for, and has priority 1 or more.
C10_DirectTasksForAssignee ==
    (/\ lastOp.op = "decide_notification_action"
     /\ DirectTasksOnly(lastOp.user_id)
     /\ OutsideQuietHours(lastOp.user_id, lastOp.at % MinutesPerDay))
        => (lastOp.result = "instant"
            <=> /\ PyEq(lastOp.item.type, PyType("task"))
                /\ lastOp.item.assigned_to_user_id = PyS(lastOp.user_id)
                /\ lastOp.item.priority.n >= 1)

\* the user u has a stored preferences document
HasStored(u) == u \in DOMAIN profiles /\ profiles[u].k = "json"

\* the rule named r is in the instant_for list of user u; a user without
\* stored preferences has direct_tasks and urgent_customer_issues
Listed(u, r) ==
    IF HasStored(u)
    THEN /\ "instant_for" \in profiles[u].doc.keys
         /\ \E i \in 1..Len(profiles[u].doc.instant_for) :
                profiles[u].doc.instant_for[i] = r
    ELSE r \in {"direct_tasks", "urgent_customer_issues"}

\* batch_everything_else of user u; enabled when nothing is stored
BatchEnabled(u) ==
    IF HasStored(u) /\ "batch_everything_else" \in profiles[u].doc.keys
    THEN profiles[u].doc.batch_everything_else
    ELSE TRUE

\* the time of day m is outside the quiet hours of user u, 22:00 to 08:00
\* for a user without stored preferences
OutsideQuiet(u, m) ==
    IF HasStored(u) THEN OutsideQuietHours(u, m) ELSE ~InWindow(<<22, 0, 8, 0>>, m)

\* the text of the nullable column v contains the word w, in any case
ColumnContains(v, w) == v # None /\ Contains(Lower(v.s), w)

\* the item is a task of priority 1 or more assigned to somebody other
\* than user u
OthersDirectTask(item, u) ==
    /\ PyEq(item.type, PyType("task"))
    /\ item.assigned_to_user_id \notin {None, PyS(""), PyS(u)}
    /\ item.priority.n >= 1

\* a rule listed for user u matches the item
ListedRuleMatches(item, u) ==
    \/ /\ Listed(u, "direct_tasks")
       /\ PyEq(item.type, PyType("task"))
       /\ item.assigned_to_user_id = PyS(u)
       /\ item.priority.n >= 1
    \/ /\ Listed(u, "urgent_customer_issues")
       /\ item.priority.n = 2
       /\ \/ ColumnContains(item.project, "customer")
          \/ ColumnContains(item.source_channel_name, "support")
    \/ /\ Listed(u, "high_priority")
       /\ item.priority.n >= 1

Listed_ids(f) == {f[i] : i \in 1..Len(f)}

\* f is the first n of the rows sel in an order that agrees with Before:
\* it lists min(n, |sel|) different rows of sel, none of them after a row
\* it must precede, and no row left out must precede a listed one
FirstOf(f, sel, n, Before(_, _)) ==
    /\ Len(f) = IF Cardinality(sel) < n THEN Cardinality(sel) ELSE n
    /\ Listed_ids(f) \subseteq sel
    /\ \A i, j \in 1..Len(f) : i < j => f[i] # f[j] /\ ~Before(items[f[j]], items[f[i]])
    /\ \A x \in sel \ Listed_ids(f) : \A i \in 1..Len(f) : ~Before(items[x], items[f[i]])

\* the row is shown in the focus mode of user u at time t
InFocus(row, u, t) ==
    /\ row.type = PyType("task")
    /\ row.assigned_to_user_id = PyS(u)
    /\ row.status \in {PyStatus("open"), PyStatus("in_progress")}
    /\ \/ row.priority.n > 0
       \/ row.priority.n = 0 /\ row.due_date # None /\ row.due_date.n <= t + MinutesPerDay

\* priority descending, then due date ascending with no due date last
FocusBefore(a, b) ==
    \/ a.priority.n > b.priority.n
    \/ /\ a.priority.n = b.priority.n
       /\ a.due_date # None
       /\ (b.due_date = None \/ a.due_date.n < b.due_date.n)

\* C12: focusModeTasks(user, topN) returns the first topN, by priority
\* descending then due date ascending with null due dates last, of the open
\* or in-progress tasks assigned to the user that have priority > 0 or are
\* due within 24 hours.
C12_FocusModeTasks ==
    lastOp.op = "get_focus_mode_tasks"
        => /\ lastOp.result = "list"
           /\ FirstOf(returned, {x \in DOMAIN items : InFocus(items[x], lastOp.user_id, now)},
                      lastOp.at, FocusBefore)

\* the tasks a sweep of days_inactive days selects at time t
StaleCandidates(days_inactive, t) ==
    {x \in DOMAIN items :
        /\ items[x].type = PyType("task")
        /\ items[x].status \in {PyStatus("open"), PyStatus("in_progress")}
        /\ items[x].updated_at.n < t - days_inactive * MinutesPerDay}

\* C13: markStale sets to stale exactly the open or in-progress tasks not
\* updated since now minus daysInactive, leaves every other item as it is
\* and returns their number; a second run directly after the first, at the
\* same time and with the same daysInactive, changes no item and returns 0.
C13_MarkStaleIdempotent ==
    [][(calls' # calls /\ lastOp'.op = "mark_stale_tasks")
        => LET sel == StaleCandidates(Get(lastOp'.data, "days_inactive").n, now)
           IN /\ DOMAIN items' = DOMAIN items
              /\ \A x \in DOMAIN items :
                    IF x \in sel
                    THEN /\ items'[x].status = PyStatus("stale")
                         /\ \A c \in ItemColumns \ {"status", "updated_at"} :
                               items'[x][c] = items[x][c]
                    ELSE items'[x] = items[x]
              /\ lastOp'.result = ToString(Cardinality(sel))
              /\ (/\ lastOp.op = "mark_stale_tasks"
                  /\ lastOp.data = lastOp'.data
                  /\ lastOp.at = now)
                    => items' = items /\ lastOp'.result = "0"]_vars

\* C13 happens: a sweep that found nothing left to mark, in a store where
\* an earlier sweep at the same time made a task stale.
C13_Witness ==
    /\ lastOp.op = "mark_stale_tasks"
    /\ lastOp.result = "0"
    /\ lastOp.at = now
    /\ \E x \in DOMAIN items :
          /\ items[x].status = PyStatus("stale")
          /\ items[x].updated_at = PyDt(now)

\* the keys of a filter specification, as the code spells them
InterfaceKeys ==
    {"query", "type", "status", "assigned_to", "requestor", "project", "channel_id",
     "date_from", "date_to", "workspace_id", "order_by"}

\* C14: executing a view returns what structured search returns for the
\* filter specification the view holds: the same exception, or the same
\* items in the same order (rows the ordering does not tell apart may come
\* in any order in both).
C14_ViewIsStructuredSearch ==
    (/\ lastOp.op = "execute_view"
     /\ lastOp.id \in DOMAIN views
     /\ Keys(lastOp.data) \subseteq InterfaceKeys)
        => LET r == structured_search(DB, lastOp.data,
                                      GetOr(lastOp.data, "workspace_id", None), lastOp.at)
           IN IF r.exc # "" THEN lastOp.result = r.exc
              ELSE lastOp.result = "list" /\ returned \in r.lists

\* the text of column v contains q, whatever the case of the letters
TextHas(v, q) == v # None /\ Contains(Lower(v.s), Lower(q))

\* the row satisfies the clause with key k and value v of a filter
\* specification; order_by is no clause
SatisfiesClause(row, k, v) ==
    CASE k = "type" -> \E i \in 1..Len(Members(v)) : row.type = PyType(Members(v)[i])
      [] k = "status" -> \E i \in 1..Len(Members(v)) : row.status = PyStatus(Members(v)[i])
      [] k = "assigned_to" -> row.assigned_to_user_id = v
      [] k = "requestor" -> row.requestor_user_id = v
      [] k = "project" -> row.project = v
      [] k = "channel_id" -> row.source_channel_id = v
      [] k = "workspace_id" -> row.workspace_id = v
      [] k = "query" -> \/ TextHas(row.title, v.s)
                        \/ TextHas(row.description, v.s)
                        \/ TextHas(row.raw_snippet, v.s)
      [] k = "date_from" -> row.created_at.n >= DateBound(v)
      [] k = "date_to" -> row.created_at.n <= DateBound(v)
      [] OTHER -> TRUE

\* the items that satisfy every clause of the filter specification f
Matching(f) ==
    {x \in DOMAIN items : \A i \in 1..Len(f) : SatisfiesClause(items[x], f[i][1], f[i][2])}

\* the last call ran a filter specification of the interface and
\* returned a list
Evaluated ==
    /\ \/ lastOp.op = "structured_search"
       \/ lastOp.op = "execute_view" /\ lastOp.id \in DOMAIN views
    /\ lastOp.result = "list"
    /\ Keys(lastOp.data) \subseteq InterfaceKeys

\* C15: the list an evaluation returns holds only items that satisfy every
\* clause of the filter specification, a list-valued type or status being
\* satisfied by any of its members, and it holds all of them up to the
\* limit.
C15_EveryClauseHolds ==
    Evaluated
        => /\ Listed_ids(returned) \subseteq Matching(lastOp.data)
           /\ Len(returned) = IF Cardinality(Matching(lastOp.data)) < lastOp.at
                              THEN Cardinality(Matching(lastOp.data)) ELSE lastOp.at

\* row a comes before row b under the orderBy value o; an absent orderBy
\* is most recently updated first
ComesBefore(o, a, b) ==
    CASE o = PyS("created_at_desc") -> a.created_at.n > b.created_at.n
      [] o = PyS("due_date_asc") ->
            a.due_date # None /\ (b.due_date = None \/ a.due_date.n < b.due_date.n)
      [] o = PyS("priority_desc") -> a.priority.n > b.priority.n
      [] OTHER -> a.updated_at.n > b.updated_at.n

\* C16: the list an evaluation returns is in the order its orderBy names:
\* created_at_desc newest-created first, due_date_asc by ascending due date
\* with the items without due date last, priority_desc by descending
\* priority, and most recently updated first when orderBy is absent.
C16_OrderByHonoured ==
    (Evaluated /\ GetOr(lastOp.data, "order_by", None)
                    \in {None, PyS("created_at_desc"), PyS("due_date_asc"),
                         PyS("priority_desc")})
        => \A i, j \in 1..Len(returned) :
              i < j => ~ComesBefore(GetOr(lastOp.data, "order_by", None),
                                    items[returned[j]], items[returned[i]])

\* C17: every history row references an item that exists; a delete of an
\* existing item that returns removes the item and every history row that
\* references it, and a delete of an absent id reports not-found and
\* changes nothing.
C17_DeleteCascades ==
    [][/\ \A i \in 1..Len(history') : history'[i].item_id \in DOMAIN items'
       /\ (calls' # calls /\ lastOp'.op = "delete" /\ lastOp'.result # "LookupError")
            => IF lastOp'.id \in DOMAIN items
               THEN /\ lastOp'.result = "True"
                    /\ lastOp'.id \notin DOMAIN items'
                    /\ \A i \in 1..Len(history') : history'[i].item_id # lastOp'.id
               ELSE /\ lastOp'.result = "False"
                    /\ items' = items
                    /\ history' = history]_vars

\* C17 happens: an item that had a history row was deleted and no history
\* row is left.
C17_Witness ==
    /\ lastOp.op = "delete"
    /\ lastOp.id \notin DOMAIN items
    /\ nextHid > 1
    /\ history = <<>>
    /\ lastOp.result = "True"
    /\ calls = MaxCalls

\* the item data d names a type and a status of the enumerations (the
\* status may be left out) and no id of a row of the store
Insertable(d) ==
    /\ Has(d, "type") /\ IsEnumValue("ItemType", Get(d, "type"))
    /\ Has(d, "status") => IsEnumValue("ItemStatus", Get(d, "status"))
    /\ Has(d, "id") => Get(d, "id").s \notin DOMAIN items

\* C18: an upsert of item data with valid type and status and no id of an
\* existing row, when it does not raise, inserts: a get of the returned id
\* then returns an item equal to the data on every supplied field, and no
\* history row is written.
C18_InsertRoundTrip ==
    [][(/\ calls' # calls
        /\ lastOp'.op \in UpsertOps
        /\ Insertable(lastOp'.data)
        /\ lastOp'.result \notin {"AgendaDBError", "ValueError"})
        => /\ lastOp'.result = "created"
           /\ lastOp'.id \in DOMAIN items'
           /\ Loadable(items'[lastOp'.id])
           /\ \A i \in 1..Len(lastOp'.data) :
                 lastOp'.data[i][1] # "id"
                    => PyEq(items'[lastOp'.id][lastOp'.data[i][1]], lastOp'.data[i][2])
           /\ Has(lastOp'.data, "id") => lastOp'.id = Get(lastOp'.data, "id").s
           /\ history' = history]_vars

\* C18 happens: a task was inserted through the repository with its type
\* given as a string, and the stored row carries the type and the title
\* that were supplied.
C18_Witness ==
    /\ lastOp.op = "upsert_item"
    /\ lastOp.result = "created"
    /\ Get(lastOp.data, "type") = PyS("task")
    /\ lastOp.id \in DOMAIN items
    /\ items[lastOp.id].type = PyType("task")
    /\ items[lastOp.id].title = Get(lastOp.data, "title")
    /\ history = <<>>

\* the explicit markers of the four marker categories, in priority order
MarkerTypes == <<"task", "decision", "question", "announcement">>
Markers ==
    << {"todo:", "action item:", "task:"},
       {"decision:", "we decided", "agreed to", "consensus:"},
       {"question:", "?", "can someone", "does anyone"},
       {"announcement:", "announcing", "update:"} >>

\* the marker categories present in the text
MarkersIn(text) ==
    {c \in 1..4 : \E m \in Markers[c] : Contains(Lower(text), m)}

\* the text holds a task-indicating phrase followed by something to do
PhraseIn(text) ==
    \E p \in {"can you ", "please ", "i need you to ", "i'll ", "let's ", "we should "} :
        \E i \in 1..Len(text) :
            /\ StartsAt(Lower(text), i, p)
            /\ Ch(text, i + Len(p)) \notin {"", " ", "?", ".", "!"}

\* C19: detectType returns the type of the first marker category present
\* in the text, in the order task, decision, question, announcement,
\* whatever task phrases the text holds; a text without marker is a task
\* when it holds a task phrase and a note otherwise.
C19_MarkersBeforePhrases ==
    lastOp.op = "detect_item_type"
        => LET text == Get(lastOp.data, "message_text").s
               present == MarkersIn(text)
           IN lastOp.result =
                 IF present # {}
                 THEN MarkerTypes[CHOOSE c \in present : \A d \in present : c <= d]
                 ELSE IF PhraseIn(text) THEN "task" ELSE "note"

\* C19 happens: a text with a decision marker, a task phrase and an
\* announcement marker is a decision.
C19_Witness ==
    /\ lastOp.op = "detect_item_type"
    /\ Get(lastOp.data, "message_text") = PyS("decision: please ship it update: later")
    /\ lastOp.result = "decision"

\* the weekdays, Monday first
WeekdayNames ==
    <<"monday", "tuesday", "wednesday", "thursday", "friday", "saturday", "sunday">>

\* the weekday of day number d as an index of WeekdayNames; day 0,
\* 1970-01-01, is a Thursday
WeekdayOf(d) == ((d + 3) % 7) + 1

\* C20: for a text containing "by W", W a weekday, extractDueDate returns
\* 17:00 on the first day strictly after the reference date that is a W,
\* one to seven days ahead and never the reference day itself.
C20_NextWeekdayAt17 ==
    lastOp.op = "extract_due_date"
        => \A w \in 1..7 :
              Contains(Lower(Get(lastOp.data, "message_text").s), "by " \o WeekdayNames[w])
                => LET ref == BaseTime(Get(lastOp.data, "message_ts"), lastOp.at) \div MinutesPerDay
                       day == CHOOSE d \in (ref + 1)..(ref + 7) : WeekdayOf(d) = w
                   IN lastOp.result = DtStr(day * MinutesPerDay + 17 * MinutesPerHour)

\* C20 happens: asked on a Friday evening, "by friday" is the Friday one
\* week later at 17:00.
C20_Witness ==
    /\ lastOp.op = "extract_due_date"
    /\ Get(lastOp.data, "message_text") = PyS("let's sync by friday")
    /\ Get(lastOp.data, "message_ts") = None
    /\ lastOp.at = MinutesPerDay + 18 * 60 + 30
    /\ lastOp.result = DtStr(8 * MinutesPerDay + 17 * 60)

\* the rules of the table that match the text
RulesMatching(text) ==
    {i \in 1..Len(DUE_DATE_PATTERNS) : DuePatternFound(i, Lower(text))}

\* the explicit date rule is the first rule that matches the text
DateRuleFirst(text) ==
    /\ 5 \in RulesMatching(text)
    /\ \A i \in RulesMatching(text) : i >= 5

\* the month and day written after "by" in the text
WrittenDates(text) ==
    {md \in (1..12) \X (1..31) :
        LET w == "by " \o ToString(md[1]) \o "/" \o ToString(md[2])
        IN \E i \in 1..Len(text) :
              StartsAt(Lower(text), i, w) /\ ~IsDigit(Ch(text, i + Len(w)))}

\* the printed datetimes that fall on month m, day d of 1970 or 1971
PrintedOn(m, d) ==
    {DtStr(((y * 365 + DaysBeforeMonth(m) + d - 1) * 24 + h) * MinutesPerHour + mi) :
        y \in 0..1, h \in 0..23, mi \in {0, 30}}

\* C21: a text whose first matching rule is the explicit date rule gets a
\* due date on exactly the month and day written, and only a text that
\* matches no rule gets no due date.
C21_ExplicitDateParsed ==
    lastOp.op = "extract_due_date"
        => LET text == Get(lastOp.data, "message_text").s
           IN /\ DateRuleFirst(text)
                    => \E md \in WrittenDates(text) : lastOp.result \in PrintedOn(md[1], md[2])
              /\ lastOp.result = "None" => RulesMatching(text) = {}

\* the type C19 describes for the text
DetectedType(text) ==
    LET present == MarkersIn(text)
    IN IF present # {}
       THEN MarkerTypes[CHOOSE c \in present : \A d \in present : c <= d]
       ELSE IF PhraseIn(text) THEN "task" ELSE "note"

\* the text without its leading and trailing whitespace
RECURSIVE Trimmed(_)
Trimmed(text) ==
    IF text = "" THEN ""
    ELSE IF IsWs(Ch(text, 1)) THEN Trimmed(SubSeq(text, 2, Len(text)))
    ELSE IF IsWs(Ch(text, Len(text))) THEN Trimmed(SubSeq(text, 1, Len(text) - 1))
    ELSE text

\* the importance keywords
ImportanceKeywords == {"important", "note:", "reminder", "update"}

\* the text is more than chatter: its detected type is not note, or it
\* holds an importance keyword
MoreThanChatter(text) ==
    \/ DetectedType(text) # "note"
    \/ \E k \in ImportanceKeywords : Contains(Lower(text), k)

\* the texts of the sample messages, and for each whether it has at least
\* 10 characters as it came, whether it has them without the surrounding
\* blanks, and whether it is more than chatter
MessageTexts == {Messages[i].text : i \in 1..Len(Messages)}
LongAsItCame == [x \in MessageTexts |-> Len(x) >= 10]
LongTrimmed == [x \in MessageTexts |-> Len(Trimmed(x)) >= 10]
NotChatter == [x \in MessageTexts |-> MoreThanChatter(x)]

\* the call of the step is an ingest_message that returned
IngestReturned ==
    /\ lastOp'.op = "ingest_message"
    /\ calls' = calls + 1
    /\ lastOp'.result \in {"item", "None"}

\* the step stored a new item and returned it
ItemProduced ==
    /\ lastOp'.result = "item"
    /\ lastOp'.id \notin DOMAIN items
    /\ DOMAIN items' = DOMAIN items \cup {lastOp'.id}

\* the step returned no item and left the store as it was
NothingProduced ==
    /\ lastOp'.result = "None"
    /\ items' = items
    /\ history' = history

CleanedSentence(text) ==
    LET clean == ReSub("markup", ReSub("url", ReSub("angle", ReSub("mention", text))))
    IN Strip(FirstPart(Strip(FirstPart(clean, {"\n"})), {".", "!", "?"}))

\* the first n characters of s, none when n is not positive
FirstChars(s, n) == IF n <= 0 THEN "" ELSE SubSeq(s, 1, IF n < Len(s) THEN n ELSE Len(s))

\* C23: extractTitle returns at most maxLength characters; a cleaned first
\* sentence longer than maxLength is returned as its first maxLength-3
\* characters followed by "...", and an empty one as "Untitled".
C23_TitleWithinMaxLength ==
    lastOp.op = "extract_title"
        => LET text == Get(lastOp.data, "message_text").s
               maxLength == Get(lastOp.data, "max_length").n
               sentence == CleanedSentence(text)
           IN /\ Len(lastOp.result) <= maxLength
              /\ Len(sentence) > maxLength
                    => lastOp.result = FirstChars(sentence, maxLength - 3) \o "..."
              /\ sentence = "" => lastOp.result = "Untitled"

\* the filter names a type or a status that is no value of the enumeration
UnknownEnumIn(filters) ==
    \/ Has(filters, "type") /\ EnumRaises("ItemType", Get(filters, "type"))
    \/ Has(filters, "status") /\ EnumRaises("ItemStatus", Get(filters, "status"))

\* the date bounds written in the filter, flat or under date_range
DateBoundsIn(filters) ==
    {Get(filters, k) : k \in {"date_from", "date_to"} \cap Keys(filters)}
    \cup (IF Has(filters, "date_range")
          THEN {Get(Get(filters, "date_range").d, k) :
                   k \in {"from", "to"} \cap Keys(Get(filters, "date_range").d)}
          ELSE {})

\* a date bound of the filter is a string that is no ISO date
MalformedDateIn(filters) ==
    \E v \in DateBoundsIn(filters) : v.k = "str" /\ ~IsIsoFormat(v.s)

\* C24: a read through the filter evaluator or a saved view raises only
\* for an unknown type or status string; a filter with a malformed date
\* bound yields the empty list.
C24_MalformedFilterYieldsEmpty ==
    lastOp.op \in {"structured_search", "execute_view"}
        => /\ ~lastOp.ok => UnknownEnumIn(lastOp.data)
           /\ MalformedDateIn(lastOp.data) /\ ~UnknownEnumIn(lastOp.data)
                 => lastOp.ok /\ returned = <<>>

\* item x was created within the 24 hours before t and user u is its
\* assignee or its requestor
NewFor(x, u, t) ==
    /\ items[x].created_at.n >= t - MinutesPerDay
    /\ items[x].created_at.n <= t
    /\ items[x].assigned_to_user_id = PyS(u) \/ items[x].requestor_user_id = PyS(u)

\* C25: the morning digest generated at time now lists as new tasks only
\* tasks created within the 24 hours before now whose assignee or
\* requestor is the user, and as important decisions only decisions
\* created within the 24 hours before now with priority >= 1.
C25_DigestWithin24Hours ==
    lastOp.op = "generate_morning_digest"
        => /\ lastOp.result = "list"
           /\ \A x \in Listed_ids(Get(returned, "new_tasks_24h")) :
                 items[x].type = PyType("task") /\ NewFor(x, lastOp.user_id, now)
           /\ \A x \in Listed_ids(Get(returned, "important_decisions_24h")) :
                 /\ items[x].type = PyType("decision")
                 /\ items[x].created_at.n >= now - MinutesPerDay
                 /\ items[x].priority.n >= 1

\* C26: every update_task_status call that changes the status of an
\* existing item records the change in the history of the item: a new row
\* with field status, the old status and the new status.
C26_StatusChangeRecorded ==
    [][(/\ calls' # calls
        /\ lastOp'.op = "update_task_status"
        /\ lastOp'.id \in DOMAIN items \cap DOMAIN items'
        /\ items'[lastOp'.id].status # items[lastOp'.id].status)
          => \E i \in (Len(history) + 1)..Len(history') :
                /\ history'[i].item_id = lastOp'.id
                /\ history'[i].field_changed = "status"
                /\ history'[i].old_value \in {items[lastOp'.id].status.s,
                                               PyStr(items[lastOp'.id].status)}
                /\ history'[i].new_value \in {items'[lastOp'.id].status.s,
                                               PyStr(items'[lastOp'.id].status)}]_vars

\* the fields the service-level upsert manages
ServiceFields ==
    {"type", "title", "description", "status", "assigned_to_user_id",
     "assigned_to_user_name", "source_channel_id", "source_channel_name",
     "source_thread_ts", "source_url", "priority", "tags"}

\* the fields a service-level upsert leaves alone
OutsideFields ==
    {"due_date", "due_at", "project", "topic", "requestor_user_id", "requestor_user_name",
     "workspace_id", "completed_at", "created_at", "created_by_user_id", "raw_snippet"}

\* C27: a service-level upsert that names an existing item writes every
\* service-managed field with the value the call carries for it, the
\* parameter default where the caller omitted it, records one history row
\* for each of these fields that changes, and leaves the fields outside
\* this set as they were.
C27_ServiceUpdateOverwrites ==
    [][(/\ calls' # calls
        /\ lastOp'.op = "service.upsert_item"
        /\ lastOp'.result = "updated")
          => LET id == lastOp'.id
                 data == lastOp'.data
                 added == SubSeq(history', Len(history) + 1, Len(history'))
             IN /\ ServiceFields \subseteq Keys(data)
                /\ \A f \in ServiceFields : PyEq(items'[id][f], Get(data, f))
                /\ {added[i].field_changed : i \in 1..Len(added)}
                      = {f \in ServiceFields : ~PyEq(items[id][f], items'[id][f])}
                /\ \A f \in OutsideFields : items'[id][f] = items[id][f]]_vars

\* C27 happens: an ingested item with a description, a project and a due
\* date was updated through the service by a call that gave no
\* description: the description is gone, with a history row, and the
\* project and the due date are kept.
C27_Witness ==
    /\ lastOp.op = "service.upsert_item"
    /\ lastOp.result = "updated"
    /\ lastOp.id \in DOMAIN items
    /\ items[lastOp.id].description = None
    /\ items[lastOp.id].project # None
    /\ items[lastOp.id].due_date # None
    /\ \E i \in 1..Len(history) :
          /\ history[i].item_id = lastOp.id
          /\ history[i].field_changed = "description"
          /\ history[i].new_value = "None"

\* the results of a call that raised
RaisedResults == {"Error", "AgendaDBError", "ValueError", "LookupError"}

StatusOps == {"update_task_status", "service.upsert_item", "mark_stale_tasks"}

\* C29: once the completed timestamp of an item is set, update_task_status,
\* a service-level upsert and mark_stale_tasks never clear it, and they
\* leave it unchanged whenever the item is not completed afterwards.
C29_CompletedAtKept ==
    [][(calls' # calls /\ lastOp'.op \in StatusOps)
          => \A x \in DOMAIN items \cap DOMAIN items' :
                items[x].completed_at # None
                  => /\ items'[x].completed_at # None
                     /\ items'[x].status # PyStatus("completed")
                           => items'[x].completed_at = items[x].completed_at]_vars

\* C29 happens: a task that was completed and opened again has been marked
\* stale by the sweep and still carries the timestamp of its completion.
C29_Witness ==
    /\ lastOp.op = "mark_stale_tasks"
    /\ "u1" \in DOMAIN items
    /\ items["u1"].status = PyStatus("stale")
    /\ items["u1"].completed_at = PyDt(0)

\* the priority-0 open or in-progress tasks assigned to user u
PlainTasksOf(u) ==
    {x \in DOMAIN items :
        /\ items[x].type = PyType("task")
        /\ items[x].assigned_to_user_id = PyS(u)
        /\ items[x].status \in {PyStatus("open"), PyStatus("in_progress")}
        /\ items[x].priority = PyI(0)}

\* C30: the focus-mode selection has no lower bound on the due date.  Of
\* the priority-0 open or in-progress tasks of the user, one without a due
\* date is never returned, and one due at or before now + 24 hours, in the
\* past included, is returned unless the list is full.
C30_FocusHasNoLowerBound ==
    lastOp.op = "get_focus_mode_tasks"
        => /\ lastOp.ok
           /\ \A x \in PlainTasksOf(lastOp.user_id) :
                 /\ items[x].due_date = None => x \notin Listed_ids(returned)
                 /\ (/\ items[x].due_date # None
                     /\ items[x].due_date.n <= now + MinutesPerDay
                     /\ Len(returned) < lastOp.at)
                       => x \in Listed_ids(returned)

====
